---- MODULE Spec2Model ----
(***************************************************************************)
(* Transfer protocol engine of tpi-redes: the 16-byte header codec, the    *)
(* TCP client/server pair, the UDP client and the UDP per-address session  *)
(* state machine.  Bytes are integers 0..255, byte strings are sequences   *)
(* of bytes, Python str values are sequences of Unicode code points.       *)
(***************************************************************************)
EXTENDS Integers, Sequences, FiniteSets, TLC

(***************************************************************************)
(* Bounds of the model.                                                    *)
(***************************************************************************)
\* longest batch of paths handed to send_files
MaxBatch == 2
\* most datagrams fed to UDPServer.process_datagram in one behaviour
MaxDatagrams == 5
\* number of hex digits of the digest (64 for SHA-256, scaled down)
DigestHexLen == 1
\* config.CHUNK_SIZE (4096 in config.py, scaled down so that partial and
\* full final chunks both occur with files of a few bytes)
CHUNK_SIZE == 2

(***************************************************************************)
(* Program constants.                                                      *)
(***************************************************************************)
\* struct.calcsize("!cHQH3s")
HEADER_SIZE == 16
\* block size of IntegrityVerifier.calculate_hash
HASH_BLOCK == 4096

Byte == 0..255

RECURSIVE Concat(_)
\* b"".join(seqs): the concatenation of a sequence of sequences
Concat(seqs) ==
    IF seqs = <<>> THEN <<>> ELSE Head(seqs) \o Concat(Tail(seqs))

\* s[a:b] of Python for 0 <= a, 0 <= b (0-based, end exclusive, clamped)
Slice(s, a, b) ==
    LET e == IF b > Len(s) THEN Len(s) ELSE b
    IN  IF a >= e THEN <<>> ELSE SubSeq(s, a + 1, e)

Min(a, b) == IF a < b THEN a ELSE b

(***************************************************************************)
(* str.encode("utf-8") and bytes.decode("utf-8") (strict).                 *)
(***************************************************************************)
\* the UTF-8 encoding of one code point
Utf8Char(cp) ==
    IF cp < 128 THEN <<cp>>
    ELSE IF cp < 2048 THEN <<192 + (cp \div 64), 128 + (cp % 64)>>
    ELSE IF cp < 65536 THEN
        <<224 + (cp \div 4096), 128 + ((cp \div 64) % 64), 128 + (cp % 64)>>
    ELSE <<240 + (cp \div 262144), 128 + ((cp \div 4096) % 64),
           128 + ((cp \div 64) % 64), 128 + (cp % 64)>>

RECURSIVE Utf8Encode(_)
\* str.encode("utf-8"): the encodings of the code points, in order
Utf8Encode(str) ==
    IF str = <<>> THEN <<>>
    ELSE IF Len(str) = 1 THEN Utf8Char(str[1])
    ELSE LET m == Len(str) \div 2
         IN  Utf8Encode(SubSeq(str, 1, m))
             \o Utf8Encode(SubSeq(str, m + 1, Len(str)))

IsCont(b) == b >= 128 /\ b <= 191

\* number of bytes of the well-formed UTF-8 sequence at the head of bs,
\* 0 when the head is not the start of a well-formed sequence
Utf8Width(bs) ==
    LET b1 == bs[1]
        n  == Len(bs)
    IN  IF b1 < 128 THEN 1
        ELSE IF b1 >= 194 /\ b1 <= 223
            THEN IF n >= 2 /\ IsCont(bs[2]) THEN 2 ELSE 0
        ELSE IF b1 >= 224 /\ b1 <= 239
            THEN IF /\ n >= 3
                    /\ IsCont(bs[2]) /\ IsCont(bs[3])
                    /\ (b1 = 224 => bs[2] >= 160)
                    /\ (b1 = 237 => bs[2] <= 159)
                 THEN 3 ELSE 0
        ELSE IF b1 >= 240 /\ b1 <= 244
            THEN IF /\ n >= 4
                    /\ IsCont(bs[2]) /\ IsCont(bs[3]) /\ IsCont(bs[4])
                    /\ (b1 = 240 => bs[2] >= 144)
                    /\ (b1 = 244 => bs[2] <= 143)
                 THEN 4 ELSE 0
        ELSE 0

\* the code point of the well-formed sequence of w bytes at the head of bs
Utf8Point(bs, w) ==
    IF w = 1 THEN bs[1]
    ELSE IF w = 2 THEN (bs[1] - 192) * 64 + (bs[2] - 128)
    ELSE IF w = 3 THEN
        (bs[1] - 224) * 4096 + (bs[2] - 128) * 64 + (bs[3] - 128)
    ELSE (bs[1] - 240) * 262144 + (bs[2] - 128) * 4096
         + (bs[3] - 128) * 64 + (bs[4] - 128)

RECURSIVE Utf8Valid(_)
\* TRUE iff bytes.decode("utf-8") does not raise UnicodeDecodeError
Utf8Valid(bs) ==
    IF bs = <<>> THEN TRUE
    ELSE LET w == Utf8Width(bs)
         IN  w > 0 /\ Utf8Valid(SubSeq(bs, w + 1, Len(bs)))

RECURSIVE Utf8Decode(_)
\* bytes.decode("utf-8") of a valid byte string
Utf8Decode(bs) ==
    IF bs = <<>> THEN <<>>
    ELSE LET w == Utf8Width(bs)
         IN  <<Utf8Point(bs, w)>> \o Utf8Decode(SubSeq(bs, w + 1, Len(bs)))

(***************************************************************************)
(* core/protocol.py: Header and ProtocolHandler.                           *)
(***************************************************************************)
\* big-endian encoding of n on k bytes (struct "H" for k = 2, "Q" for k = 8)
RECURSIVE PackUInt(_, _)
PackUInt(n, k) ==
    IF k = 0 THEN <<>> ELSE PackUInt(n \div 256, k - 1) \o <<n % 256>>

RECURSIVE UnpackUInt(_)
UnpackUInt(bs) ==
    IF bs = <<>> THEN 0
    ELSE UnpackUInt(SubSeq(bs, 1, Len(bs) - 1)) * 256 + bs[Len(bs)]

\* struct.pack("!cHQH3s", op_code, name_len, file_size, hash_len, b"\0\0\0")
StructPack(op_code, name_len, file_size, hash_len) ==
    <<op_code>> \o PackUInt(name_len, 2) \o PackUInt(file_size, 8)
               \o PackUInt(hash_len, 2) \o <<0, 0, 0>>

\* pack_header with the lengths counted in characters, not in bytes
pack_header_chars(op_code, filename, file_size, file_hash) ==
    StructPack(op_code, Len(filename), file_size, Len(file_hash))

\* ProtocolHandler.pack_header
pack_header(op_code, filename, file_size, file_hash) ==
    LET name_bytes == Utf8Encode(filename)
        hash_bytes == Utf8Encode(file_hash)
    IN  StructPack(op_code, Len(name_bytes), file_size, Len(hash_bytes))

\* the outcome "raise ValueError(Invalid header size ...)"
ValueError == [raised |-> "ValueError"]

\* a Header was returned
IsHeader(h) == "op_code" \in DOMAIN h

\* unpack_header that rejects only inputs that are too short
unpack_header_short(data) ==
    IF Len(data) < HEADER_SIZE THEN ValueError
    ELSE [op_code   |-> data[1],
          name_len  |-> UnpackUInt(SubSeq(data, 2, 3)),
          file_size |-> UnpackUInt(SubSeq(data, 4, 11)),
          hash_len  |-> UnpackUInt(SubSeq(data, 12, 13))]

\* ProtocolHandler.unpack_header: the Header, or ValueError when the input
\* is not HEADER_SIZE bytes long
unpack_header(data) ==
    IF Len(data) # HEADER_SIZE THEN ValueError
    ELSE [op_code   |-> data[1],
          name_len  |-> UnpackUInt(SubSeq(data, 2, 3)),
          file_size |-> UnpackUInt(SubSeq(data, 4, 11)),
          hash_len  |-> UnpackUInt(SubSeq(data, 12, 13))]

(***************************************************************************)
(* transfer/integrity.py: IntegrityVerifier.calculate_hash.  SHA-256 is    *)
(* stood for by a deterministic digest of DigestHexLen hex digits that is  *)
(* fed the file block by block, as hashlib is.                             *)
(***************************************************************************)
RECURSIVE Pow16(_)
Pow16(k) == IF k = 0 THEN 1 ELSE 16 * Pow16(k - 1)

RECURSIVE DigestUpdate(_, _)
\* sha256_hash.update(byte_block)
DigestUpdate(acc, block) ==
    IF block = <<>> THEN acc
    ELSE DigestUpdate((acc * 7 + Head(block) + 1) % Pow16(DigestHexLen),
                      Tail(block))

\* the lower-case hex digit of d as a code point
HexDigit(d) == IF d < 10 THEN 48 + d ELSE 87 + d

RECURSIVE HexDigest(_, _)
\* sha256_hash.hexdigest(): k hex digits, most significant first
HexDigest(acc, k) ==
    IF k = 0 THEN <<>>
    ELSE HexDigest(acc \div 16, k - 1) \o <<HexDigit(acc % 16)>>

RECURSIVE HashBlocks(_, _)
\* for byte_block in iter(lambda: f.read(4096), b""): update(byte_block)
HashBlocks(acc, content) ==
    IF content = <<>> THEN acc
    ELSE HashBlocks(DigestUpdate(acc, Slice(content, 0, HASH_BLOCK)),
                    Slice(content, HASH_BLOCK, Len(content)))

calculate_hash(content) == HexDigest(HashBlocks(0, content), DigestHexLen)

(***************************************************************************)
(* The sender's file system: the paths a batch may name.  A path is a      *)
(* directory and a name; Path.name is the name.                            *)
(***************************************************************************)
\* ".sha256"
SHA256_SUFFIX == <<46, 115, 104, 97, 50, 53, 54>>

NameA     == <<97>>
NameE     == <<233>>
NameASide == NameA \o SHA256_SUFFIX

PathA1   == [dir |-> "d1", name |-> NameA]
PathA2   == [dir |-> "d2", name |-> NameA]
PathE    == [dir |-> "d1", name |-> NameE]
PathSide == [dir |-> "d1", name |-> NameASide]
PathGone == [dir |-> "d1", name |-> <<122>>]

SrcPaths == {PathA1, PathA2, PathE, PathSide, PathGone}

\* Path.exists()
Exists(p) == p # PathGone

\* the bytes of an existing file
SrcContent(p) ==
    IF p = PathA1 THEN <<1, 2, 3>>
    ELSE IF p = PathA2 THEN <<>>
    ELSE IF p = PathE THEN <<4, 5>>
    ELSE <<6>>

RECURSIVE SelectExisting(_)
\* valid_files = [f for f in files if f.exists()]
SelectExisting(fs) ==
    IF fs = <<>> THEN <<>>
    ELSE (IF Exists(Head(fs)) THEN <<Head(fs)>> ELSE <<>>)
         \o SelectExisting(Tail(fs))

\* the batches send_files may be called with
Batches == UNION {[1..n -> SrcPaths] : n \in 0..MaxBatch}

\* the chunk_size argument of send_files
ChunkSizes == 1..CHUNK_SIZE

\* opcode of a file transfer, b"F"
OP_FILE == 70

(***************************************************************************)
(* State.                                                                  *)
(***************************************************************************)
VARIABLES
    \* --- the call send_files(files, ip, port, delay, chunk_size) ---
    protocol,       \* "tcp" or "udp": which client and server run
    files,          \* the files argument
    chunk_size,     \* the chunk_size argument
    cpc,            \* position of the client in send_files
    cIdx,           \* index in valid_files of the file being sent
    cOff,           \* bytes of the current file already read
    sockets,        \* number of sockets the client has created
    connects,       \* number of s.connect calls made
    \* --- the TCP connection ---
    tcpStream,      \* every byte the client has written to the socket
    tcpClosed,      \* the client has closed the connection
    \* --- the datagrams of the UDP client ---
    udpSent,        \* every datagram the client has sent, in order
    udpPos,         \* number of them the server has received
    \* --- TCPServer.handle_client ---
    spc,            \* position of the server in handle_client
    rpos,           \* bytes of tcpStream the server has received
    rxN,            \* n of the _recv_exact call in progress
    rxData,         \* data of the _recv_exact call in progress
    rxEof,          \* that call met the end of the stream
    header,         \* the unpacked header of the current file
    filename,       \* its decoded file name
    file_hash,      \* its decoded hash
    received_bytes, \* content bytes written so far
    written,        \* the files completed so far, in order
    \* --- the receiver ---
    disk,           \* save_dir: relative path -> bytes
    sessions,       \* UDPServer.sessions: address -> UDPSession
    \* --- the datagram fed to UDPServer.process_datagram ---
    fed,            \* number of datagrams processed
    lastAddr,       \* address of the last one
    lastData,       \* its bytes
    lastEvent,      \* what process_datagram did with it
    trace,          \* per address: the datagrams since its session began
    alone,          \* per address: no other address wrote to its file
    \* --- the header codec exercised on its own ---
    codecPc,
    codecArgs,
    codecBytes,
    codecHeader,
    \* --- TCPServer.start ---
    pending,        \* the connections waiting for accept(), in order
    accepted,       \* the connections accept() has returned, in order
    tcpReset,       \* the peer of the accepted connection resets it
    handled,        \* how handle_client ended for each connection so far
    \* --- ProxyServer ---
    corruption_rate, \* self.corruption_rate, in quarters
    \* --- ProxyServer.corrupt_data called on its own ---
    corruptPc,
    corruptData,    \* the data argument
    corruptOut,     \* what the call returned or raised
    \* --- ProxyServer, UDP ---
    udp_sessions,       \* self.udp_sessions: client address -> socket
    udp_sessions_lock,  \* the thread that holds the lock, or LockFree
    socks,          \* the outbound sockets created, each with its reply task
    dpc,            \* position of the start_udp thread
    dData,          \* data of the datagram it is handling
    dAddr,          \* addr of that datagram
    dSock,          \* target_socket of handle_client_udp
    pxIn,           \* number of datagrams recvfrom has returned
    pxReplies,      \* number of datagrams the target has sent back
    lastRelay,      \* what the proxy did with the last datagram it handled
    \* --- ProxyServer, TCP ---
    pxPending,      \* the client connections waiting for accept(), in order
    bridges,        \* one record per accepted client: handle_client_tcp,
                    \* its sockets and its two forward_tcp threads
    closeWakesRecv, \* the platform: close() of a socket makes a recv that
                    \* another thread is blocked in fail (elsewhere the
                    \* recv goes on waiting, as on Linux)
    \* --- send_files: the throttle ---
    delay,          \* the delay argument, in milliseconds
    calls,          \* the sends and the time.sleep calls so far, in order
    \* --- DiscoveryService.scan ---
    scanPc,         \* position in scan
    scanTimeout,    \* the timeout argument, in ticks
    scanElapsed,    \* time.time() - start_time, in ticks
    scanIn,         \* number of times recvfrom has returned or raised
    scanLast,       \* the datagram recvfrom returned last
    discovered_peers,   \* the list scan builds and returns
    \* --- DiscoveryService.listen and stop ---
    running,        \* self.running
    lisPc,          \* position of the _listen_loop thread
    lisPort,        \* the port argument of listen
    lisInbox,       \* the datagrams waiting on the discovery port
    lisIn,          \* number of datagrams sent to the discovery port
    lisLast,        \* the datagram recvfrom returned last
    lisSent         \* the datagrams the listener has sent, in order

clientVars == <<protocol, files, chunk_size, cpc, cIdx, cOff, sockets,
                connects>>
tcpVars    == <<tcpStream, tcpClosed>>
udpVars    == <<udpSent, udpPos>>
srvVars    == <<spc, rpos, rxN, rxData, rxEof, header, filename, file_hash,
                received_bytes, written>>
feedVars   == <<fed, lastAddr, lastData, lastEvent, trace, alone>>
codecVars  == <<codecPc, codecArgs, codecBytes, codecHeader>>
acceptVars == <<pending, accepted, tcpReset, handled>>

\* the variables of the services that run beside one transfer
corruptVars == <<corruptPc, corruptData, corruptOut>>
udpProxyVars == <<udp_sessions, udp_sessions_lock, socks, dpc, dData, dAddr,
                  dSock, pxIn, pxReplies, lastRelay>>
tcpProxyVars == <<pxPending, bridges, closeWakesRecv>>
proxyVars   == <<corruption_rate, corruptVars, udpProxyVars, tcpProxyVars>>
throttleVars == <<delay, calls>>
scanVars     == <<scanPc, scanTimeout, scanElapsed, scanIn, scanLast,
                  discovered_peers>>
listenVars   == <<running, lisPc, lisPort, lisInbox, lisIn, lisLast,
                  lisSent>>
discoveryVars == <<scanVars, listenVars>>
sideVars     == <<throttleVars, discoveryVars>>
serviceVars == <<acceptVars, proxyVars, sideVars>>

vars == <<clientVars, tcpVars, udpVars, srvVars, disk, sessions, feedVars,
          codecVars, serviceVars>>

\* the addresses datagrams come from
ClientAddr == "10.0.0.1:5000"
OtherAddr  == "10.0.0.2:5000"
Addrs      == {ClientAddr, OtherAddr}

None == "None"

valid_files == SelectExisting(files)

\* the file the client is sending
CurPath == valid_files[cIdx]
CurName == CurPath.name
CurHash == calculate_hash(SrcContent(CurPath))
CurSize == Len(SrcContent(CurPath))

(***************************************************************************)
(* The throttle of both clients: what one pass of the content loop calls.  *)
(***************************************************************************)
\* the delay arguments tried, in milliseconds
Delays == {0, 2}

\* time.sleep(0.001) after the header and the metadata datagram
PACKET_GAP == 1

\* Throttled with the sleep made before the chunk is sent
ThrottledBefore(op, n) ==
    IF delay > 0
    THEN <<[op |-> "sleep", arg |-> delay], [op |-> op, arg |-> n]>>
    ELSE <<[op |-> op, arg |-> n]>>

\* s.sendall(chunk) or s.sendto(chunk, addr) of n bytes, then
\* if delay > 0: time.sleep(delay)
Throttled(op, n) ==
    IF delay > 0
    THEN <<[op |-> op, arg |-> n], [op |-> "sleep", arg |-> delay]>>
    ELSE <<[op |-> op, arg |-> n]>>

(***************************************************************************)
(* transport/tcp_client.py: TCPClient.send_files.                          *)
(***************************************************************************)
\* no existing file: raise FileNotFoundError before any socket exists
TcpNoValidFiles ==
    /\ protocol = "tcp" /\ cpc = "start"
    /\ valid_files = <<>>
    /\ cpc' = "FileNotFoundError"
    /\ UNCHANGED <<protocol, files, chunk_size, cIdx, cOff, sockets, connects,
                   tcpVars, udpVars, srvVars, disk, sessions, feedVars,
                   codecVars, serviceVars>>

\* socket.socket(...) and s.connect((ip, port)) succeed
TcpConnect ==
    /\ protocol = "tcp" /\ cpc = "start"
    /\ valid_files # <<>>
    /\ sockets' = sockets + 1
    /\ connects' = connects + 1
    /\ cIdx' = 1
    /\ cpc' = "header"
    /\ UNCHANGED <<protocol, files, chunk_size, cOff, tcpVars, udpVars,
                   srvVars, disk, sessions, feedVars, codecVars,
                   serviceVars>>

\* s.connect raises: the with block closes the socket, nothing was sent
TcpConnectFails ==
    /\ protocol = "tcp" /\ cpc = "start"
    /\ valid_files # <<>>
    /\ sockets' = sockets + 1
    /\ connects' = connects + 1
    /\ cpc' = "ConnectionError"
    /\ UNCHANGED <<protocol, files, chunk_size, cIdx, cOff, tcpVars, udpVars,
                   srvVars, disk, sessions, feedVars, codecVars,
                   serviceVars>>

\* hash, stat, pack_header, s.sendall(header)
TcpSendHeader ==
    /\ protocol = "tcp" /\ cpc = "header"
    /\ tcpStream' = tcpStream \o pack_header(OP_FILE, CurName, CurSize, CurHash)
    /\ cpc' = "metadata"
    /\ calls' = Append(calls, [op |-> "sendall", arg |-> HEADER_SIZE])
    /\ UNCHANGED <<protocol, files, chunk_size, cIdx, cOff, sockets, connects,
                   tcpClosed, udpVars, srvVars, disk, sessions, feedVars,
                   codecVars, acceptVars, proxyVars, discoveryVars,
                   delay>>

\* TcpSendMetadata with the hash sent before the file name
TcpSendMetadataSwapped ==
    /\ protocol = "tcp" /\ cpc = "metadata"
    /\ tcpStream' = tcpStream \o Utf8Encode(CurHash) \o Utf8Encode(CurName)
    /\ cOff' = 0
    /\ cpc' = "content"
    /\ calls' = Append(calls, [op |-> "sendall", arg |-> Len(Utf8Encode(CurName)) + Len(Utf8Encode(CurHash))])
    /\ UNCHANGED <<protocol, files, chunk_size, cIdx, sockets, connects,
                   tcpClosed, udpVars, srvVars, disk, sessions, feedVars,
                   codecVars, acceptVars, proxyVars, discoveryVars,
                   delay>>

\* s.sendall(filename.encode("utf-8") + file_hash.encode("utf-8"))
TcpSendMetadata ==
    /\ protocol = "tcp" /\ cpc = "metadata"
    /\ tcpStream' = tcpStream \o Utf8Encode(CurName) \o Utf8Encode(CurHash)
    /\ cOff' = 0
    /\ cpc' = "content"
    /\ calls' = Append(calls, [op |-> "sendall", arg |-> Len(Utf8Encode(CurName)) + Len(Utf8Encode(CurHash))])
    /\ UNCHANGED <<protocol, files, chunk_size, cIdx, sockets, connects,
                   tcpClosed, udpVars, srvVars, disk, sessions, feedVars,
                   codecVars, acceptVars, proxyVars, discoveryVars,
                   delay>>

\* while chunk := f.read(chunk_size): s.sendall(chunk)
TcpSendChunk ==
    /\ protocol = "tcp" /\ cpc = "content"
    /\ cOff < CurSize
    /\ LET chunk == Slice(SrcContent(CurPath), cOff, cOff + chunk_size)
       IN  /\ tcpStream' = tcpStream \o chunk
           /\ cOff' = cOff + Len(chunk)
           /\ calls' = calls \o Throttled("sendall", Len(chunk))
    /\ UNCHANGED <<protocol, files, chunk_size, cpc, cIdx, sockets, connects,
                   tcpClosed, udpVars, srvVars, disk, sessions, feedVars,
                   codecVars, acceptVars, proxyVars, discoveryVars,
                   delay>>

\* f.read returns b"": the file is done; next file, or leave the with block
TcpFileDone ==
    /\ protocol = "tcp" /\ cpc = "content"
    /\ cOff >= CurSize
    /\ IF cIdx < Len(valid_files)
       THEN /\ cIdx' = cIdx + 1
            /\ cpc' = "header"
            /\ UNCHANGED tcpClosed
       ELSE /\ cpc' = "done"
            /\ tcpClosed' = TRUE
            /\ UNCHANGED cIdx
    /\ UNCHANGED <<protocol, files, chunk_size, cOff, sockets, connects,
                   tcpStream, udpVars, srvVars, disk, sessions, feedVars,
                   codecVars, serviceVars>>

(***************************************************************************)
(* The receiver's save_dir.                                                *)
(***************************************************************************)
\* open(Path(save_dir) / filename, ...) raises: the path is a directory
\* (save_dir itself, "." or "..") or the name holds a NUL character
OpenFails(name) ==
    \/ name \in {<<>>, <<46>>, <<46, 46>>}
    \/ \E i \in 1..Len(name) : name[i] = 0

\* Path(f"{save_path}.sha256")
HashPath(name) == name \o SHA256_SUFFIX

\* open(path, "wb") or open(path, "w") followed by write(bytes)
WriteFile(d, path, bytes) ==
    [p \in DOMAIN d \cup {path} |-> IF p = path THEN bytes ELSE d[p]]

\* AppendFile with the file opened in "wb" mode for every write
AppendFileTruncating(d, path, bytes) ==
    [p \in DOMAIN d \cup {path} |-> IF p = path THEN bytes ELSE d[p]]

\* open(path, "ab") followed by write(bytes)
AppendFile(d, path, bytes) ==
    [p \in DOMAIN d \cup {path} |->
        IF p = path THEN (IF path \in DOMAIN d THEN d[path] ELSE <<>>) \o bytes
        ELSE d[p]]

EmptyDisk == [p \in {} |-> <<>>]

(***************************************************************************)
(* transport/tcp_server.py: TCPServer.handle_client and _recv_exact.       *)
(***************************************************************************)
RecvStages == {"header", "name", "hash", "content"}

\* the client's connect succeeded, so accept() returns its connection
Connected ==
    protocol = "tcp" /\ cpc \in {"header", "metadata", "content", "done"}

\* _recv_exact that returns after its first packet
RecvReturnedFirstPacket == rxEof \/ Len(rxData) >= Min(1, rxN)

\* the _recv_exact call in progress has returned
RecvReturned == rxEof \/ Len(rxData) >= rxN

\* its result: the n bytes, or b"" when the peer closed first
RecvResult == IF rxEof THEN <<>> ELSE rxData

\* conn, addr = s.accept(); handle_client begins with _recv_exact(16)
TcpAccept ==
    /\ spc = "listen" /\ Connected
    /\ spc' = "header"
    /\ rxN' = HEADER_SIZE /\ rxData' = <<>> /\ rxEof' = FALSE
    /\ UNCHANGED <<clientVars, tcpVars, udpVars, rpos, header, filename,
                   file_hash, received_bytes, written, disk, sessions,
                   feedVars, codecVars, serviceVars>>

\* one packet = conn.recv(n - len(data)) of _recv_exact: any non-empty
\* prefix of what has arrived, at most n - len(data) bytes; b"" at EOF
TcpRecv ==
    /\ spc \in RecvStages /\ ~RecvReturned
    /\ LET avail == Len(tcpStream) - rpos
       IN  \/ /\ avail > 0
              /\ \E k \in 1..Min(rxN - Len(rxData), avail) :
                    /\ rxData' = rxData \o SubSeq(tcpStream, rpos + 1, rpos + k)
                    /\ rpos' = rpos + k
              /\ UNCHANGED rxEof
           \/ /\ avail = 0 /\ tcpClosed
              /\ rxEof' = TRUE
              /\ UNCHANGED <<rxData, rpos>>
    /\ UNCHANGED <<clientVars, tcpVars, udpVars, spc, rxN, header, filename,
                   file_hash, received_bytes, written, disk, sessions,
                   feedVars, codecVars, serviceVars>>

\* TcpGotHeader of a loop that reads again when _recv_exact returned b""
TcpGotHeaderRetries ==
    /\ spc = "header" /\ RecvReturned
    /\ IF RecvResult = <<>>
       THEN /\ spc' = "header"
            /\ rxN' = HEADER_SIZE /\ rxData' = <<>> /\ rxEof' = FALSE
            /\ UNCHANGED header
       ELSE LET h == unpack_header(RecvResult)
            IN  IF IsHeader(h)
                THEN /\ header' = h
                     /\ spc' = "name"
                     /\ rxN' = h.name_len /\ rxData' = <<>>
                     /\ rxEof' = FALSE
                ELSE /\ spc' = "error"
                     /\ UNCHANGED <<header, rxN, rxData, rxEof>>
    /\ UNCHANGED <<clientVars, tcpVars, udpVars, rpos, filename, file_hash,
                   received_bytes, written, disk, sessions, feedVars,
                   codecVars, serviceVars>>

\* header_data = _recv_exact(conn, 16); break when empty; unpack_header;
\* then _recv_exact(conn, header.name_len)
TcpGotHeader ==
    /\ spc = "header" /\ RecvReturned
    /\ IF RecvResult = <<>>
       THEN /\ spc' = "returned"
            /\ UNCHANGED <<header, rxN, rxData, rxEof>>
       ELSE LET h == unpack_header(RecvResult)
            IN  IF IsHeader(h)
                THEN /\ header' = h
                     /\ spc' = "name"
                     /\ rxN' = h.name_len /\ rxData' = <<>>
                     /\ rxEof' = FALSE
                ELSE \* except Exception: log and return
                     /\ spc' = "error"
                     /\ UNCHANGED <<header, rxN, rxData, rxEof>>
    /\ UNCHANGED <<clientVars, tcpVars, udpVars, rpos, filename, file_hash,
                   received_bytes, written, disk, sessions, feedVars,
                   codecVars, serviceVars>>

\* filename = filename_bytes.decode("utf-8"); _recv_exact(conn, hash_len)
TcpGotName ==
    /\ spc = "name" /\ RecvReturned
    /\ IF ~Utf8Valid(RecvResult)
       THEN /\ spc' = "error"
            /\ UNCHANGED <<filename, rxN, rxData, rxEof>>
       ELSE /\ filename' = Utf8Decode(RecvResult)
            /\ spc' = "hash"
            /\ rxN' = header.hash_len /\ rxData' = <<>> /\ rxEof' = FALSE
    /\ UNCHANGED <<clientVars, tcpVars, udpVars, rpos, header, file_hash,
                   received_bytes, written, disk, sessions, feedVars,
                   codecVars, serviceVars>>

\* ContentLoop written as a loop that reads before it tests: a file of no
\* bytes enters the loop body with a read of zero bytes
ContentLoopReadsFirst(received, size) ==
    IF received < size \/ received = 0
    THEN [spc |-> "content", n |-> Min(CHUNK_SIZE, size - received)]
    ELSE [spc |-> "sidecar", n |-> 0]

\* ContentLoop that asks for a whole CHUNK_SIZE on every read
ContentLoopFullChunk(received, size) ==
    IF received < size
    THEN [spc |-> "content", n |-> CHUNK_SIZE]
    ELSE [spc |-> "sidecar", n |-> 0]

\* the content loop's test and its next _recv_exact(min(CHUNK_SIZE, rest)),
\* or the position after the loop
ContentLoop(received, size) ==
    IF received < size
    THEN [spc |-> "content", n |-> Min(CHUNK_SIZE, size - received)]
    ELSE [spc |-> "sidecar", n |-> 0]

\* file_hash = hash_bytes.decode("utf-8"); mkdir; open(save_path, "wb");
\* received_bytes = 0; first test of the content loop
TcpGotHash ==
    /\ spc = "hash" /\ RecvReturned
    /\ IF ~Utf8Valid(RecvResult) \/ OpenFails(filename)
       THEN /\ spc' = "error"
            /\ UNCHANGED <<file_hash, received_bytes, disk, rxN, rxData,
                           rxEof>>
       ELSE /\ file_hash' = Utf8Decode(RecvResult)
            /\ disk' = WriteFile(disk, filename, <<>>)
            /\ received_bytes' = 0
            /\ LET next == ContentLoop(0, header.file_size)
               IN  /\ spc' = next.spc
                   /\ rxN' = next.n /\ rxData' = <<>> /\ rxEof' = FALSE
    /\ UNCHANGED <<clientVars, tcpVars, udpVars, rpos, header, filename,
                   written, sessions, feedVars, codecVars, serviceVars>>

\* chunk = _recv_exact(conn, chunk_size); break when empty; f.write(chunk);
\* received_bytes += len(chunk); next test of the content loop
TcpGotChunk ==
    /\ spc = "content" /\ RecvReturned
    /\ IF RecvResult = <<>>
       THEN /\ spc' = "sidecar"
            /\ UNCHANGED <<received_bytes, disk, rxN, rxData, rxEof>>
       ELSE /\ disk' = AppendFile(disk, filename, RecvResult)
            /\ received_bytes' = received_bytes + Len(RecvResult)
            /\ LET next == ContentLoop(received_bytes', header.file_size)
               IN  /\ spc' = next.spc
                   /\ rxN' = next.n /\ rxData' = <<>> /\ rxEof' = FALSE
    /\ UNCHANGED <<clientVars, tcpVars, udpVars, rpos, header, filename,
                   file_hash, written, sessions, feedVars, codecVars,
                   serviceVars>>

\* TcpWriteSidecar of a server that stores the hash of what it received
TcpWriteSidecarRecomputed ==
    /\ spc = "sidecar"
    /\ disk' = WriteFile(disk, HashPath(filename),
                         Utf8Encode(calculate_hash(disk[filename])))
    /\ written' = Append(written, [filename  |-> filename,
                                   content   |-> disk[filename],
                                   file_hash |-> calculate_hash(disk[filename])])
    /\ spc' = "header"
    /\ rxN' = HEADER_SIZE /\ rxData' = <<>> /\ rxEof' = FALSE
    /\ UNCHANGED <<clientVars, tcpVars, udpVars, rpos, header, filename,
                   file_hash, received_bytes, sessions, feedVars, codecVars,
                   serviceVars>>

\* the content file is closed; open(hash_path, "w").write(file_hash); the
\* next iteration begins with _recv_exact(conn, 16)
TcpWriteSidecar ==
    /\ spc = "sidecar"
    /\ disk' = WriteFile(disk, HashPath(filename), Utf8Encode(file_hash))
    /\ written' = Append(written, [filename  |-> filename,
                                   content   |-> disk[filename],
                                   file_hash |-> file_hash])
    /\ spc' = "header"
    /\ rxN' = HEADER_SIZE /\ rxData' = <<>> /\ rxEof' = FALSE
    /\ UNCHANGED <<clientVars, tcpVars, udpVars, rpos, header, filename,
                   file_hash, received_bytes, sessions, feedVars, codecVars,
                   serviceVars>>

(***************************************************************************)
(* transport/udp_client.py: UDPClient.send_files.                          *)
(***************************************************************************)
\* UdpNoValidFiles with the socket created before the files are filtered
UdpNoValidFilesLate ==
    /\ protocol = "udp" /\ cpc = "start"
    /\ valid_files = <<>>
    /\ sockets' = sockets + 1
    /\ cpc' = "FileNotFoundError"
    /\ UNCHANGED <<protocol, files, chunk_size, cIdx, cOff, connects,
                   tcpVars, udpVars, srvVars, disk, sessions, feedVars,
                   codecVars, serviceVars>>

\* no existing file: raise FileNotFoundError before any socket exists
UdpNoValidFiles ==
    /\ protocol = "udp" /\ cpc = "start"
    /\ valid_files = <<>>
    /\ cpc' = "FileNotFoundError"
    /\ UNCHANGED <<protocol, files, chunk_size, cIdx, cOff, sockets, connects,
                   tcpVars, udpVars, srvVars, disk, sessions, feedVars,
                   codecVars, serviceVars>>

\* with socket.socket(AF_INET, SOCK_DGRAM) as s
UdpSocket ==
    /\ protocol = "udp" /\ cpc = "start"
    /\ valid_files # <<>>
    /\ sockets' = sockets + 1
    /\ cIdx' = 1
    /\ cpc' = "header"
    /\ UNCHANGED <<protocol, files, chunk_size, cOff, connects, tcpVars,
                   udpVars, srvVars, disk, sessions, feedVars, codecVars,
                   serviceVars>>

\* hash, stat, pack_header, s.sendto(header, addr)
UdpSendHeader ==
    /\ protocol = "udp" /\ cpc = "header"
    /\ udpSent' = Append(udpSent,
                         pack_header(OP_FILE, CurName, CurSize, CurHash))
    /\ cpc' = "metadata"
    /\ calls' = calls \o <<[op |-> "sendto", arg |-> HEADER_SIZE],
                         [op |-> "sleep", arg |-> PACKET_GAP]>>
    /\ UNCHANGED <<protocol, files, chunk_size, cIdx, cOff, sockets, connects,
                   tcpVars, udpPos, srvVars, disk, sessions, feedVars,
                   codecVars, acceptVars, proxyVars, discoveryVars,
                   delay>>

\* s.sendto(filename.encode("utf-8") + file_hash.encode("utf-8"), addr)
UdpSendMetadata ==
    /\ protocol = "udp" /\ cpc = "metadata"
    /\ udpSent' = Append(udpSent, Utf8Encode(CurName) \o Utf8Encode(CurHash))
    /\ cOff' = 0
    /\ cpc' = "content"
    /\ calls' = calls \o <<[op |-> "sendto", arg |-> Len(Utf8Encode(CurName)) + Len(Utf8Encode(CurHash))],
                         [op |-> "sleep", arg |-> PACKET_GAP]>>
    /\ UNCHANGED <<protocol, files, chunk_size, cIdx, sockets, connects,
                   tcpVars, udpPos, srvVars, disk, sessions, feedVars,
                   codecVars, acceptVars, proxyVars, discoveryVars,
                   delay>>

\* while chunk := f.read(chunk_size): s.sendto(chunk, addr)
UdpSendChunk ==
    /\ protocol = "udp" /\ cpc = "content"
    /\ cOff < CurSize
    /\ LET chunk == Slice(SrcContent(CurPath), cOff, cOff + chunk_size)
       IN  /\ udpSent' = Append(udpSent, chunk)
           /\ cOff' = cOff + Len(chunk)
           /\ calls' = calls \o Throttled("sendto", Len(chunk))
    /\ UNCHANGED <<protocol, files, chunk_size, cpc, cIdx, sockets, connects,
                   tcpVars, udpPos, srvVars, disk, sessions, feedVars,
                   codecVars, acceptVars, proxyVars, discoveryVars,
                   delay>>

\* f.read returns b"": the file is done; next file, or leave the with block
UdpFileDone ==
    /\ protocol = "udp" /\ cpc = "content"
    /\ cOff >= CurSize
    /\ IF cIdx < Len(valid_files)
       THEN cIdx' = cIdx + 1 /\ cpc' = "header"
       ELSE cpc' = "done" /\ UNCHANGED cIdx
    /\ UNCHANGED <<protocol, files, chunk_size, cOff, sockets, connects,
                   tcpVars, udpVars, srvVars, disk, sessions, feedVars,
                   codecVars, serviceVars>>

(***************************************************************************)
(* transport/udp_server.py: UDPSession and UDPServer.process_datagram.     *)
(***************************************************************************)
\* del self.sessions[addr]
DelSession(ss, addr) == [a \in DOMAIN ss \ {addr} |-> ss[a]]

\* self.sessions[addr] = session
PutSession(ss, addr, session) ==
    [a \in DOMAIN ss \cup {addr} |-> IF a = addr THEN session ELSE ss[a]]

\* UDPSession(state="WAITING_METADATA", header=header)
NewSession(h) ==
    [state |-> "WAITING_METADATA", header |-> h, filename |-> None,
     file_hash |-> None, received_bytes |-> 0, file_path |-> None]

\* NoSession that drops the header of an empty file
NoSessionDropsEmpty(ss, d, data, addr) ==
    IF Len(data) = HEADER_SIZE
    THEN LET h == unpack_header(data)
         IN  IF IsHeader(h) /\ h.file_size > 0
             THEN [sessions |-> PutSession(ss, addr, NewSession(h)),
                   disk |-> d, event |-> "new_session"]
             ELSE [sessions |-> ss, disk |-> d, event |-> "invalid_header"]
    ELSE [sessions |-> ss, disk |-> d, event |-> "dropped"]

\* the branch "if not session" of process_datagram
NoSession(ss, d, data, addr) ==
    IF Len(data) = HEADER_SIZE
    THEN LET h == unpack_header(data)
         IN  IF IsHeader(h)
             THEN [sessions |-> PutSession(ss, addr, NewSession(h)),
                   disk |-> d, event |-> "new_session"]
             ELSE [sessions |-> ss, disk |-> d, event |-> "invalid_header"]
    ELSE [sessions |-> ss, disk |-> d, event |-> "dropped"]

\* WaitingMetadata whose exception handler empties the whole session map
WaitingMetadataClearsAll(ss, d, data, addr) ==
    LET session      == ss[addr]
        expected_len == session.header.name_len + session.header.hash_len
        name_bytes   == Slice(data, 0, session.header.name_len)
        hash_bytes   == Slice(data, session.header.name_len, Len(data))
    IN  IF Len(data) = expected_len
        THEN IF \/ ~Utf8Valid(name_bytes)
                \/ ~Utf8Valid(hash_bytes)
                \/ OpenFails(Utf8Decode(name_bytes))
             THEN [sessions |-> [a \in {} |-> None], disk |-> d,
                   event |-> "exception"]
             ELSE LET name == Utf8Decode(name_bytes)
                  IN  [sessions |->
                          PutSession(ss, addr,
                              [session EXCEPT
                                  !.filename = name,
                                  !.file_hash = Utf8Decode(hash_bytes),
                                  !.file_path = name,
                                  !.state = "RECEIVING_CONTENT"]),
                       disk |-> WriteFile(d, name, <<>>),
                       event |-> "metadata"]
        ELSE [sessions |-> DelSession(ss, addr), disk |-> d,
              event |-> "invalid_metadata_length"]

\* WaitingMetadata that keeps the session when the length does not fit
WaitingMetadataKeeps(ss, d, data, addr) ==
    LET session      == ss[addr]
        expected_len == session.header.name_len + session.header.hash_len
        name_bytes   == Slice(data, 0, session.header.name_len)
        hash_bytes   == Slice(data, session.header.name_len, Len(data))
    IN  IF Len(data) = expected_len
        THEN IF \/ ~Utf8Valid(name_bytes)
                \/ ~Utf8Valid(hash_bytes)
                \/ OpenFails(Utf8Decode(name_bytes))
             THEN [sessions |-> DelSession(ss, addr), disk |-> d,
                   event |-> "exception"]
             ELSE LET name == Utf8Decode(name_bytes)
                  IN  [sessions |->
                          PutSession(ss, addr,
                              [session EXCEPT
                                  !.filename = name,
                                  !.file_hash = Utf8Decode(hash_bytes),
                                  !.file_path = name,
                                  !.state = "RECEIVING_CONTENT"]),
                       disk |-> WriteFile(d, name, <<>>),
                       event |-> "metadata"]
        ELSE [sessions |-> ss, disk |-> d,
              event |-> "invalid_metadata_length"]

\* the branch session.state == "WAITING_METADATA"
WaitingMetadata(ss, d, data, addr) ==
    LET session      == ss[addr]
        expected_len == session.header.name_len + session.header.hash_len
        name_bytes   == Slice(data, 0, session.header.name_len)
        hash_bytes   == Slice(data, session.header.name_len, Len(data))
    IN  IF Len(data) = expected_len
        THEN IF \/ ~Utf8Valid(name_bytes)
                \/ ~Utf8Valid(hash_bytes)
                \/ OpenFails(Utf8Decode(name_bytes))
             THEN \* except Exception: del self.sessions[addr]
                  [sessions |-> DelSession(ss, addr), disk |-> d,
                   event |-> "exception"]
             ELSE LET name == Utf8Decode(name_bytes)
                  IN  [sessions |->
                          PutSession(ss, addr,
                              [session EXCEPT
                                  !.filename = name,
                                  !.file_hash = Utf8Decode(hash_bytes),
                                  !.file_path = name,
                                  !.state = "RECEIVING_CONTENT"]),
                       disk |-> WriteFile(d, name, <<>>),
                       event |-> "metadata"]
        ELSE [sessions |-> DelSession(ss, addr), disk |-> d,
              event |-> "invalid_metadata_length"]

\* ReceivingContent that completes only beyond the declared size
ReceivingContentStrict(ss, d, data, addr) ==
    LET session  == ss[addr]
        received == session.received_bytes + Len(data)
        d1       == AppendFile(d, session.file_path, data)
    IN  IF received > session.header.file_size
        THEN [sessions |-> DelSession(ss, addr),
              disk |-> IF session.file_hash # <<>>
                       THEN WriteFile(d1, HashPath(session.file_path),
                                      Utf8Encode(session.file_hash))
                       ELSE d1,
              event |-> "complete"]
        ELSE [sessions |->
                 PutSession(ss, addr,
                            [session EXCEPT !.received_bytes = received]),
              disk |-> d1, event |-> "content"]

\* ReceivingContent that, when the file is complete, keeps the session and
\* has it wait for the metadata of another file
ReceivingContentRestarts(ss, d, data, addr) ==
    LET session  == ss[addr]
        received == session.received_bytes + Len(data)
        d1       == AppendFile(d, session.file_path, data)
    IN  IF received >= session.header.file_size
        THEN [sessions |->
                 PutSession(ss, addr,
                            [session EXCEPT !.received_bytes = 0,
                                            !.state = "WAITING_METADATA"]),
              disk |-> IF session.file_hash # <<>>
                       THEN WriteFile(d1, HashPath(session.file_path),
                                      Utf8Encode(session.file_hash))
                       ELSE d1,
              event |-> "complete"]
        ELSE [sessions |->
                 PutSession(ss, addr,
                            [session EXCEPT !.received_bytes = received]),
              disk |-> d1, event |-> "content"]

\* the branch session.state == "RECEIVING_CONTENT"
ReceivingContent(ss, d, data, addr) ==
    LET session  == ss[addr]
        received == session.received_bytes + Len(data)
        d1       == AppendFile(d, session.file_path, data)
    IN  IF received >= session.header.file_size
        THEN [sessions |-> DelSession(ss, addr),
              disk |-> IF session.file_hash # <<>>
                       THEN WriteFile(d1, HashPath(session.file_path),
                                      Utf8Encode(session.file_hash))
                       ELSE d1,
              event |-> "complete"]
        ELSE [sessions |->
                 PutSession(ss, addr,
                            [session EXCEPT !.received_bytes = received]),
              disk |-> d1, event |-> "content"]

\* UDPServer.process_datagram(data, addr): the session map and save_dir
\* afterwards, and the branch taken
process_datagram(ss, d, data, addr) ==
    IF addr \notin DOMAIN ss THEN NoSession(ss, d, data, addr)
    ELSE IF ss[addr].state = "WAITING_METADATA"
        THEN WaitingMetadata(ss, d, data, addr)
    ELSE ReceivingContent(ss, d, data, addr)

\* the loop of UDPServer.start: data, addr = recvfrom(65535);
\* process_datagram(data, addr), on the datagrams of the client in the
\* order they were sent
UdpServe ==
    /\ protocol = "udp"
    /\ udpPos < Len(udpSent)
    /\ LET r == process_datagram(sessions, disk, udpSent[udpPos + 1],
                                 ClientAddr)
       IN  sessions' = r.sessions /\ disk' = r.disk
    /\ udpPos' = udpPos + 1
    /\ UNCHANGED <<clientVars, tcpVars, udpSent, srvVars, feedVars,
                   codecVars, serviceVars>>

(***************************************************************************)
(* UDPServer.process_datagram called directly, as its unit test does, with *)
(* any datagram of FeedData from any address.                              *)
(***************************************************************************)
NameB == <<98>>

\* header of a 2-byte file "a" with a 1-character hash
HeaderTwo  == pack_header(OP_FILE, NameA, 2, NameB)
\* header of an empty file "a" with a 1-character hash
HeaderZero == pack_header(OP_FILE, NameA, 0, NameB)
\* metadata of both: filename "a", hash "b"
MetaAB     == Utf8Encode(NameA) \o Utf8Encode(NameB)
\* two bytes whose first is not UTF-8
MetaBadUtf == <<255, 98>>
\* filename ".", which is save_dir itself
MetaDot    == <<46, 98>>

\* sixteen zero bytes: a header with op_code 0 and every length 0
HeaderNull   == [i \in 1..HEADER_SIZE |-> 0]
\* header of a 2-byte file "a" with an empty hash, and its metadata
HeaderNoHash == pack_header(OP_FILE, NameA, 2, <<>>)
MetaA        == Utf8Encode(NameA)

FeedData == {HeaderTwo, HeaderZero, MetaAB, MetaBadUtf, MetaDot,
             <<>>, <<1>>, <<7, 8, 9>>, HeaderNull, HeaderNoHash, MetaA}

\* the bytes of the file of a's session are the same in d1 and d2
SameFile(ss, a, d1, d2) ==
    LET path == ss[a].file_path
    IN  (path \in DOMAIN d1) = (path \in DOMAIN d2)
        /\ (path \in DOMAIN d1 => d1[path] = d2[path])

FeedDatagram ==
    /\ protocol = "udp"
    /\ fed < MaxDatagrams
    /\ \E addr \in Addrs, data \in FeedData :
        LET r == process_datagram(sessions, disk, data, addr)
        IN  /\ sessions' = r.sessions
            /\ disk' = r.disk
            /\ lastAddr' = addr
            /\ lastData' = data
            /\ lastEvent' = r.event
            /\ trace' = [a \in Addrs |->
                 IF a # addr THEN trace[a]
                 ELSE IF addr \in DOMAIN sessions THEN Append(trace[a], data)
                 ELSE IF r.event = "new_session" THEN <<data>>
                 ELSE <<>>]
            /\ alone' = [a \in Addrs |->
                 IF a = addr THEN (r.event = "metadata" \/ alone[a])
                 ELSE /\ alone[a]
                      /\ (a \in DOMAIN sessions
                          /\ sessions[a].state = "RECEIVING_CONTENT")
                         => SameFile(sessions, a, disk, r.disk)]
    /\ fed' = fed + 1
    /\ UNCHANGED <<clientVars, tcpVars, udpVars, srvVars, codecVars,
                   serviceVars>>

(***************************************************************************)
(* ProtocolHandler exercised on its own: pack_header on any arguments,     *)
(* unpack_header on its output and on byte strings of any other length.    *)
(***************************************************************************)
\* a str of n copies of the code point cp
Repeat(cp, n) == [i \in 1..n |-> cp]

CodecOpCodes  == {0, OP_FILE, 255}
CodecNames    == {<<>>, NameA, NameE, <<8364, 97>>, <<128512>>,
                  Repeat(233, 300)}
CodecSizes    == {0, 1, 255, 256, 65536, 2147483647}
CodecHashes   == {<<>>, NameB, Repeat(102, 64)}
\* lengths other than HEADER_SIZE of the byte strings given to unpack_header
CodecLengths  == (0..(HEADER_SIZE + 2)) \ {HEADER_SIZE}

CodecInputs ==
    [op_code : CodecOpCodes, filename : CodecNames, file_size : CodecSizes,
     file_hash : CodecHashes]

\* data cut or zero-padded to n bytes
Resize(data, n) ==
    [i \in 1..n |-> IF i <= Len(data) THEN data[i] ELSE 0]

CodecPack ==
    /\ codecPc = "args"
    /\ codecBytes' = pack_header(codecArgs.op_code, codecArgs.filename,
                                 codecArgs.file_size, codecArgs.file_hash)
    /\ codecPc' = "packed"
    /\ UNCHANGED <<clientVars, tcpVars, udpVars, srvVars, disk, sessions,
                   feedVars, codecArgs, codecHeader,
                   serviceVars>>

CodecResize ==
    /\ codecPc = "packed"
    /\ \E n \in CodecLengths : codecBytes' = Resize(codecBytes, n)
    /\ codecPc' = "resized"
    /\ UNCHANGED <<clientVars, tcpVars, udpVars, srvVars, disk, sessions,
                   feedVars, codecArgs, codecHeader,
                   serviceVars>>

CodecUnpack ==
    /\ codecPc \in {"packed", "resized"}
    /\ codecHeader' = unpack_header(codecBytes)
    /\ codecPc' = IF codecPc = "packed" THEN "unpacked" ELSE "unpacked_resized"
    /\ UNCHANGED <<clientVars, tcpVars, udpVars, srvVars, disk, sessions,
                   feedVars, codecArgs, codecBytes,
                   serviceVars>>

(***************************************************************************)
(* transport/tcp_server.py: TCPServer.start, the accept loop, serving the  *)
(* connections of peers that send any bytes and then close, reset or stay  *)
(* silent.                                                                 *)
(***************************************************************************)
\* the bytes of one file as send_files frames them
WireFrame(name, content, hash) ==
    pack_header(OP_FILE, name, Len(content), hash)
        \o Utf8Encode(name) \o Utf8Encode(hash) \o content

ContentA == <<1, 2, 3>>
ContentB == <<7>>
\* "bb", a hash of two characters
HashBB   == <<98, 98>>

FrameA == WireFrame(NameA, ContentA, calculate_hash(ContentA))
FrameB == WireFrame(NameB, ContentB, calculate_hash(ContentB))
\* file "a" whose last content byte has one bit flipped on the way
FrameFlipped == WireFrame(NameA, <<1, 2, 2>>, calculate_hash(ContentA))
\* file "a" with the hash "bb"
FrameHashBB == WireFrame(NameA, ContentA, HashBB)
\* file "a" whose header declares a 2-byte name, the name being 1 byte
FrameLongName ==
    StructPack(OP_FILE, 2, Len(ContentA), 1)
        \o Utf8Encode(NameA) \o Utf8Encode(NameB) \o ContentA
\* a file whose name is not UTF-8
FrameBadUtf ==
    StructPack(OP_FILE, 1, Len(ContentA), 1) \o <<255>> \o Utf8Encode(NameB)
        \o ContentA
\* a file named ".", which is save_dir itself
FrameDot == WireFrame(<<46>>, ContentA, NameB)

\* the first n bytes of a stream
Cut(stream, n) == SubSeq(stream, 1, n)

\* file "a" without its last two content bytes
FrameACut == Cut(FrameA, Len(FrameA) - 2)

\* what a peer writes to its connection
PeerStreams ==
    { <<>>, FrameA, FrameB, FrameA \o FrameB, FrameFlipped,
      FrameLongName \o FrameB, FrameBadUtf \o FrameB, FrameDot \o FrameB,
      Cut(FrameA, 8),          \* closed inside the header
      Cut(FrameHashBB, 18),    \* closed inside the hash
      FrameACut }              \* closed inside the content

\* a peer and what it does after writing its stream: close the connection,
\* reset it, or neither ("stall")
Peers ==
    [stream : PeerStreams, end : {"close"}]
        \cup [stream : {<<>>, FrameACut},
              end : {"reset", "stall"}]

\* the connections made to the server, in the order accept() returns them
MaxConns == 2

PeerQueues ==
    UNION { [1..n -> Peers] : n \in 1..MaxConns }

\* TcpAcceptNext of a server that accepts while a connection is being
\* handled
TcpAcceptNextAnytime ==
    /\ pending # <<>>
    /\ tcpStream' = Head(pending).stream
    /\ tcpClosed' = (Head(pending).end = "close")
    /\ tcpReset' = (Head(pending).end = "reset")
    /\ pending' = Tail(pending)
    /\ accepted' = Append(accepted, Head(pending))
    /\ spc' = "header" /\ rpos' = 0
    /\ rxN' = HEADER_SIZE /\ rxData' = <<>> /\ rxEof' = FALSE
    /\ UNCHANGED <<clientVars, udpVars, header, filename, file_hash,
                   received_bytes, written, disk, sessions, feedVars,
                   codecVars, handled, proxyVars,
                   sideVars>>

\* TcpAcceptNext of a server that remembers the end of the last stream
TcpAcceptNextKeepsEof ==
    /\ spc = "listen" /\ pending # <<>>
    /\ tcpStream' = Head(pending).stream
    /\ tcpClosed' = (Head(pending).end = "close")
    /\ tcpReset' = (Head(pending).end = "reset")
    /\ pending' = Tail(pending)
    /\ accepted' = Append(accepted, Head(pending))
    /\ spc' = "header" /\ rpos' = 0
    /\ rxN' = HEADER_SIZE /\ rxData' = <<>>
    /\ UNCHANGED <<clientVars, udpVars, rxEof, header, filename, file_hash,
                   received_bytes, written, disk, sessions, feedVars,
                   codecVars, handled, proxyVars,
                   sideVars>>

\* conn, addr = s.accept(); handle_client begins with _recv_exact(16)
TcpAcceptNext ==
    /\ spc = "listen" /\ pending # <<>>
    /\ tcpStream' = Head(pending).stream
    /\ tcpClosed' = (Head(pending).end = "close")
    /\ tcpReset' = (Head(pending).end = "reset")
    /\ pending' = Tail(pending)
    /\ accepted' = Append(accepted, Head(pending))
    /\ spc' = "header" /\ rpos' = 0
    /\ rxN' = HEADER_SIZE /\ rxData' = <<>> /\ rxEof' = FALSE
    /\ UNCHANGED <<clientVars, udpVars, header, filename, file_hash,
                   received_bytes, written, disk, sessions, feedVars,
                   codecVars, handled, proxyVars,
                   sideVars>>

\* conn.recv raises ConnectionResetError: except Exception logs it and
\* handle_client returns
TcpRecvReset ==
    /\ spc \in RecvStages /\ ~RecvReturned
    /\ tcpReset
    /\ spc' = "error"
    /\ UNCHANGED <<clientVars, tcpVars, udpVars, rpos, rxN, rxData, rxEof,
                   header, filename, file_hash, received_bytes, written,
                   disk, sessions, feedVars, codecVars, acceptVars, proxyVars,
                   sideVars>>

\* TcpHandled of a handle_client that lets its exceptions out of the loop
TcpHandledReturnedOnly ==
    /\ spc = "returned"
    /\ handled' = Append(handled, spc)
    /\ spc' = "listen"
    /\ UNCHANGED <<clientVars, tcpVars, udpVars, rpos, rxN, rxData, rxEof,
                   header, filename, file_hash, received_bytes, written,
                   disk, sessions, feedVars, codecVars, pending, accepted,
                   tcpReset, proxyVars,
                   sideVars>>

\* handle_client has returned: "with conn" closes the connection and the
\* loop calls accept() again
TcpHandled ==
    /\ spc \in {"returned", "error"}
    /\ handled' = Append(handled, spc)
    /\ spc' = "listen"
    /\ UNCHANGED <<clientVars, tcpVars, udpVars, rpos, rxN, rxData, rxEof,
                   header, filename, file_hash, received_bytes, written,
                   disk, sessions, feedVars, codecVars, pending, accepted,
                   tcpReset, proxyVars,
                   sideVars>>

(***************************************************************************)
(* services/proxy.py: ProxyServer.corrupt_data.  A probability is a number *)
(* of quarters: corruption_rate is 0, 2 or 4 (0.0, 0.5, 1.0) and           *)
(* random.random() returns 0..3 (a value of [0.0, 1.0)).                   *)
(***************************************************************************)
RateOne == 4
Rates   == {0, 2, RateOne}
\* the values of random.random()
Rolls   == 0..(RateOne - 1)

\* random.randint(a, b): any integer of a..b; ValueError when the range is
\* empty
randint(a, b) ==
    IF a <= b THEN {[raised |-> FALSE, value |-> v] : v \in a..b}
    ELSE {[raised |-> TRUE, value |-> 0]}

\* bit k of byte b
Bit(b, k) == (b \div (2 ^ k)) % 2

\* b ^ (1 << k)
XorBit(b, k) == IF Bit(b, k) = 1 THEN b - (2 ^ k) ELSE b + (2 ^ k)

\* corrupt_data that also corrupts when random.random() equals the rate
corrupt_data_inclusive(data, rate, roll, idx, bit_idx) ==
    IF roll <= rate
    THEN IF idx.raised
         THEN [raised |-> TRUE, data |-> data]
         ELSE [raised |-> FALSE,
               data |-> [data EXCEPT ![idx.value + 1] =
                                         XorBit(@, bit_idx.value)]]
    ELSE [raised |-> FALSE, data |-> data]

\* corrupt_data(data) with corruption_rate = rate, where random.random()
\* returns roll, and idx and bit_idx are the outcomes of the two randint
\* calls: the bytes returned, or raised when randint raised
corrupt_data(data, rate, roll, idx, bit_idx) ==
    IF roll < rate
    THEN IF idx.raised
         THEN [raised |-> TRUE, data |-> data]
         ELSE [raised |-> FALSE,
               data |-> [data EXCEPT ![idx.value + 1] =
                                         XorBit(@, bit_idx.value)]]
    ELSE [raised |-> FALSE, data |-> data]

\* "if self.corruption_rate > 0: data = self.corrupt_data(data)" of the
\* forwarding paths: every outcome of the call, or data untouched
MaybeCorrupt(data) ==
    IF corruption_rate > 0
    THEN {corrupt_data(data, corruption_rate, roll, idx, bit_idx) :
            roll \in Rolls, idx \in randint(0, Len(data) - 1),
            bit_idx \in randint(0, 7)}
    ELSE {[raised |-> FALSE, data |-> data]}

\* b"Hello", the data of test_corrupt_data
Hello == <<72, 101, 108, 108, 111>>

CorruptInputs == {<<>>, <<0>>, <<255>>, <<72, 101>>, Hello}

\* one call of corrupt_data
CorruptCall ==
    /\ corruptPc = "args"
    /\ \E roll \in Rolls, idx \in randint(0, Len(corruptData) - 1),
          bit_idx \in randint(0, 7) :
          corruptOut' = corrupt_data(corruptData, corruption_rate, roll,
                                     idx, bit_idx)
    /\ corruptPc' = "returned"
    /\ UNCHANGED <<clientVars, tcpVars, udpVars, srvVars, disk, sessions,
                   feedVars, codecVars, acceptVars, tcpProxyVars,
                   corruption_rate,
                   corruptData, udpProxyVars,
                   sideVars>>

(***************************************************************************)
(* services/proxy.py: the UDP proxy.  start_udp runs handle_client_udp for *)
(* each datagram on one thread; every outbound socket has a thread running *)
(* forward_udp_reply.  self.running is True from start_udp on.             *)
(***************************************************************************)
\* the datagrams clients send to the proxy, and those the target sends back
MaxProxyIn == 2
MaxReplies == 1

ProxyData == {<<>>, <<5>>}
ReplyData == {<<>>, <<9>>}

\* holders of udp_sessions_lock: nobody, the start_udp thread, or the reply
\* task of socket k (k >= 1)
LockFree   == 0
MainThread == -1

NoRelay == [dir |-> "none", addr |-> None, data |-> <<>>, sock |-> 0,
            result |-> "none", sent |-> <<>>]

\* the tasks of forward_udp_reply that have not finished
LiveTasks == {k \in 1..Len(socks) : socks[k].rpc # "done"}

\* data, addr = server_socket.recvfrom(MAX_UDP_PACKET_SIZE)
UdpProxyRecvfrom ==
    /\ dpc = "recvfrom" /\ pxIn < MaxProxyIn
    /\ \E addr \in Addrs, data \in ProxyData :
          dAddr' = addr /\ dData' = data
    /\ pxIn' = pxIn + 1
    /\ dpc' = "lock"
    /\ UNCHANGED <<clientVars, tcpVars, udpVars, srvVars, disk, sessions,
                   feedVars, codecVars, acceptVars, tcpProxyVars,
                   corruption_rate,
                   corruptVars, udp_sessions, udp_sessions_lock, socks,
                   dSock, pxReplies, lastRelay,
                   sideVars>>

\* handle_client_udp: with self.udp_sessions_lock
UdpProxyLock ==
    /\ dpc = "lock" /\ udp_sessions_lock = LockFree
    /\ udp_sessions_lock' = MainThread
    /\ dpc' = "session"
    /\ UNCHANGED <<clientVars, tcpVars, udpVars, srvVars, disk, sessions,
                   feedVars, codecVars, acceptVars, tcpProxyVars,
                   corruption_rate,
                   corruptVars, udp_sessions, socks, dData, dAddr, dSock,
                   pxIn, pxReplies, lastRelay,
                   sideVars>>

\* UdpProxySession of a proxy that opens a socket for every datagram
UdpProxySessionAlwaysNew ==
    /\ dpc = "session"
    /\ socks' = Append(socks, [addr |-> dAddr, open |-> TRUE,
                               rpc |-> "recv", inbox |-> <<>>])
    /\ udp_sessions' = [a \in DOMAIN udp_sessions \cup {dAddr} |->
                          IF a = dAddr THEN Len(socks) + 1
                          ELSE udp_sessions[a]]
    /\ dSock' = Len(socks) + 1
    /\ dpc' = "forward"
    /\ UNCHANGED lastRelay
    /\ udp_sessions_lock' = LockFree
    /\ UNCHANGED <<clientVars, tcpVars, udpVars, srvVars, disk, sessions,
                   feedVars, codecVars, acceptVars, tcpProxyVars,
                   corruption_rate,
                   corruptVars, dData, dAddr, pxIn, pxReplies,
                   sideVars>>

\* inside the lock: target_socket = self.udp_sessions.get(client_key); when
\* there is none, socket(), connect(), insert, start forward_udp_reply on a
\* thread, or log and return when one of them raises; the lock is released
UdpProxySession ==
    /\ dpc = "session"
    /\ IF dAddr \in DOMAIN udp_sessions
       THEN /\ dSock' = udp_sessions[dAddr]
            /\ dpc' = "forward"
            /\ UNCHANGED <<udp_sessions, socks, lastRelay>>
       ELSE \/ /\ socks' = Append(socks, [addr |-> dAddr, open |-> TRUE,
                                          rpc |-> "recv", inbox |-> <<>>])
               /\ udp_sessions' =
                     [a \in DOMAIN udp_sessions \cup {dAddr} |->
                         IF a = dAddr THEN Len(socks) + 1
                         ELSE udp_sessions[a]]
               /\ dSock' = Len(socks) + 1
               /\ dpc' = "forward"
               /\ UNCHANGED lastRelay
            \/ /\ lastRelay' = [dir |-> "forward", addr |-> dAddr,
                                data |-> dData, sock |-> 0,
                                result |-> "no_socket", sent |-> <<>>]
               /\ dpc' = "recvfrom"
               /\ UNCHANGED <<udp_sessions, socks, dSock>>
    /\ udp_sessions_lock' = LockFree
    /\ UNCHANGED <<clientVars, tcpVars, udpVars, srvVars, disk, sessions,
                   feedVars, codecVars, acceptVars, tcpProxyVars,
                   corruption_rate,
                   corruptVars, dData, dAddr, pxIn, pxReplies,
                   sideVars>>

\* outside the lock: data = corrupt_data(data) when corruption_rate > 0;
\* target_socket.send(data); except Exception logs "UDP Send Error"
UdpProxyForward ==
    /\ dpc = "forward"
    /\ \E c \in MaybeCorrupt(dData) :
          lastRelay' =
                [dir |-> "forward", addr |-> dAddr, data |-> dData,
                 sock |-> dSock,
                 result |-> IF c.raised THEN "corrupt_error"
                            ELSE IF ~socks[dSock].open THEN "send_error"
                            ELSE "sent",
                 sent |-> IF ~c.raised /\ socks[dSock].open THEN c.data
                          ELSE <<>>]
    /\ dpc' = "recvfrom"
    /\ UNCHANGED <<clientVars, tcpVars, udpVars, srvVars, disk, sessions,
                   feedVars, codecVars, acceptVars, tcpProxyVars,
                   corruption_rate,
                   corruptVars, udp_sessions, udp_sessions_lock, socks,
                   dData, dAddr, dSock, pxIn, pxReplies,
                   sideVars>>

\* the target sends a datagram to the port of outbound socket k
TargetReply(k) ==
    /\ socks[k].open /\ pxReplies < MaxReplies
    /\ \E data \in ReplyData :
          socks' = [socks EXCEPT ![k].inbox = Append(@, data)]
    /\ pxReplies' = pxReplies + 1
    /\ UNCHANGED <<clientVars, tcpVars, udpVars, srvVars, disk, sessions,
                   feedVars, codecVars, acceptVars, tcpProxyVars,
                   corruption_rate,
                   corruptVars, udp_sessions, udp_sessions_lock, dpc, dData,
                   dAddr, dSock, pxIn, lastRelay,
                   sideVars>>

\* UdpReplyRecv of a reply task that sends to the address of the datagram
\* the start_udp thread handled last
UdpReplyRecvToLast(k) ==
    /\ socks[k].rpc = "recv" /\ socks[k].inbox # <<>>
    /\ LET data == Head(socks[k].inbox)
       IN  \E c \in MaybeCorrupt(data) :
              LET ends == data = <<>> \/ c.raised
              IN  /\ socks' = [socks EXCEPT
                                 ![k].inbox = Tail(@),
                                 ![k].rpc = IF ends THEN "finally"
                                            ELSE "recv"]
                  /\ lastRelay' =
                        [dir |-> "reply", addr |-> dAddr,
                         data |-> data, sock |-> k,
                         result |-> IF ends THEN "break" ELSE "sent",
                         sent |-> IF ends THEN <<>> ELSE c.data]
    /\ UNCHANGED <<clientVars, tcpVars, udpVars, srvVars, disk, sessions,
                   feedVars, codecVars, acceptVars, tcpProxyVars,
                   corruption_rate,
                   corruptVars, udp_sessions, udp_sessions_lock, dpc, dData,
                   dAddr, dSock, pxIn, pxReplies,
                   sideVars>>

\* forward_udp_reply: data = target_socket.recv(...); break when empty;
\* corrupt_data when corruption_rate > 0; server_socket.sendto(data,
\* client_addr); an exception ends the loop
UdpReplyRecv(k) ==
    /\ socks[k].rpc = "recv" /\ socks[k].inbox # <<>>
    /\ LET data == Head(socks[k].inbox)
       IN  \E c \in MaybeCorrupt(data) :
              LET ends == data = <<>> \/ c.raised
              IN  /\ socks' = [socks EXCEPT
                                 ![k].inbox = Tail(@),
                                 ![k].rpc = IF ends THEN "finally"
                                            ELSE "recv"]
                  /\ lastRelay' =
                        [dir |-> "reply", addr |-> socks[k].addr,
                         data |-> data, sock |-> k,
                         result |-> IF ends THEN "break" ELSE "sent",
                         sent |-> IF ends THEN <<>> ELSE c.data]
    /\ UNCHANGED <<clientVars, tcpVars, udpVars, srvVars, disk, sessions,
                   feedVars, codecVars, acceptVars, tcpProxyVars,
                   corruption_rate,
                   corruptVars, udp_sessions, udp_sessions_lock, dpc, dData,
                   dAddr, dSock, pxIn, pxReplies,
                   sideVars>>

\* target_socket.recv raises (the target's port is unreachable): except
\* Exception: pass
UdpReplyError(k) ==
    /\ socks[k].rpc = "recv"
    /\ socks' = [socks EXCEPT ![k].rpc = "finally"]
    /\ UNCHANGED <<clientVars, tcpVars, udpVars, srvVars, disk, sessions,
                   feedVars, codecVars, acceptVars, tcpProxyVars,
                   corruption_rate,
                   corruptVars, udp_sessions, udp_sessions_lock, dpc, dData,
                   dAddr, dSock, pxIn, pxReplies, lastRelay,
                   sideVars>>

\* UdpReplyLock of a cleanup that does not take udp_sessions_lock
UdpReplyLockNotTaken(k) ==
    /\ socks[k].rpc = "finally"
    /\ socks' = [socks EXCEPT ![k].rpc = "locked"]
    /\ UNCHANGED <<clientVars, tcpVars, udpVars, srvVars, disk, sessions,
                   feedVars, codecVars, acceptVars, tcpProxyVars,
                   corruption_rate,
                   corruptVars, udp_sessions, udp_sessions_lock, dpc, dData,
                   dAddr, dSock, pxIn, pxReplies, lastRelay,
                   sideVars>>

\* finally: with self.udp_sessions_lock
UdpReplyLock(k) ==
    /\ socks[k].rpc = "finally" /\ udp_sessions_lock = LockFree
    /\ udp_sessions_lock' = k
    /\ socks' = [socks EXCEPT ![k].rpc = "locked"]
    /\ UNCHANGED <<clientVars, tcpVars, udpVars, srvVars, disk, sessions,
                   feedVars, codecVars, acceptVars, tcpProxyVars,
                   corruption_rate,
                   corruptVars, udp_sessions, dpc, dData, dAddr, dSock,
                   pxIn, pxReplies, lastRelay,
                   sideVars>>

\* if self.udp_sessions.get(client_addr) == target_socket: del; the lock is
\* released
UdpReplyRemove(k) ==
    /\ socks[k].rpc = "locked"
    /\ LET a == socks[k].addr
       IN  udp_sessions' =
             IF a \in DOMAIN udp_sessions /\ udp_sessions[a] = k
             THEN [b \in DOMAIN udp_sessions \ {a} |-> udp_sessions[b]]
             ELSE udp_sessions
    /\ udp_sessions_lock' = LockFree
    /\ socks' = [socks EXCEPT ![k].rpc = "close"]
    /\ UNCHANGED <<clientVars, tcpVars, udpVars, srvVars, disk, sessions,
                   feedVars, codecVars, acceptVars, tcpProxyVars,
                   corruption_rate,
                   corruptVars, dpc, dData, dAddr, dSock, pxIn, pxReplies,
                   lastRelay,
                   sideVars>>

\* target_socket.close(); the task ends
UdpReplyClose(k) ==
    /\ socks[k].rpc = "close"
    /\ socks' = [socks EXCEPT ![k].open = FALSE, ![k].rpc = "done"]
    /\ UNCHANGED <<clientVars, tcpVars, udpVars, srvVars, disk, sessions,
                   feedVars, codecVars, acceptVars, tcpProxyVars,
                   corruption_rate,
                   corruptVars, udp_sessions, udp_sessions_lock, dpc, dData,
                   dAddr, dSock, pxIn, pxReplies, lastRelay,
                   sideVars>>

(***************************************************************************)
(* services/proxy.py: the TCP proxy.  start_tcp starts a thread running    *)
(* handle_client_tcp for each accepted client; handle_client_tcp dials the *)
(* target and runs forward_tcp on two threads, one per direction.          *)
(***************************************************************************)
MaxBridges == 2

\* the directions of a bridge: client to target, target to client
Dirs == {"c2t", "t2c"}

\* a client and the target it would reach: what each writes to its
\* connection, and whether it then closes or stays silent
PxConns ==
    [cIn : {<<>>, <<5, 6>>}, cEnd : {"close", "stall"},
     tIn : {<<>>, <<9, 8>>}, tEnd : {"close", "stall"}]

\* a client that connects and closes, to a target that does the same
QuietConn == [cIn |-> <<>>, cEnd |-> "close", tIn |-> <<>>, tEnd |-> "close"]

\* the clients that connect: one of any kind, or several quiet ones
PxQueues ==
    { <<conn>> : conn \in PxConns }
        \cup { [i \in 1..n |-> QuietConn] : n \in 2..MaxBridges }

\* the state of handle_client_tcp(client_socket) when its thread starts;
\* read[d] is all that source.recv has returned in direction d, toTarget and
\* toClient all that sendall has written to either socket
NewBridge(conn) ==
    [hpc |-> "dial", dials |-> 0, tasks |-> 0,
     client_sock |-> "open", target_sock |-> "none",
     cIn |-> conn.cIn, cEnd |-> conn.cEnd,
     tIn |-> conn.tIn, tEnd |-> conn.tEnd,
     fpc |-> [d \in Dirs |-> "none"],
     buf |-> [d \in Dirs |-> <<>>],
     read |-> [d \in Dirs |-> <<>>],
     toTarget |-> <<>>, toClient |-> <<>>]

\* source and destination of forward_tcp in direction d
SourceSock(br, d) == IF d = "c2t" THEN br.client_sock ELSE br.target_sock
DestSock(br, d)   == IF d = "c2t" THEN br.target_sock ELSE br.client_sock
SourceIn(br, d)   == IF d = "c2t" THEN br.cIn ELSE br.tIn
SourceEnd(br, d)  == IF d = "c2t" THEN br.cEnd ELSE br.tEnd

\* client_socket, addr = server_socket.accept();
\* threading.Thread(target=self.handle_client_tcp, ...).start()
ProxyAccept ==
    /\ pxPending # <<>>
    /\ bridges' = Append(bridges, NewBridge(Head(pxPending)))
    /\ pxPending' = Tail(pxPending)
    /\ UNCHANGED <<clientVars, tcpVars, udpVars, srvVars, disk, sessions,
                   feedVars, codecVars, acceptVars, corruption_rate,
                   corruptVars, udpProxyVars, closeWakesRecv,
                   sideVars>>

\* ProxyDial of a proxy that dials again after a failed connect
ProxyDialRetrying(b) ==
    /\ bridges[b].hpc = "dial"
    /\ \E ok \in BOOLEAN :
          bridges' = [bridges EXCEPT
              ![b].dials = @ + 1,
              ![b].target_sock = "open",
              ![b].tasks = IF ok THEN 2 ELSE 0,
              ![b].fpc = IF ok THEN [d \in Dirs |-> "loop"] ELSE @,
              ![b].hpc = IF ok THEN "join"
                         ELSE IF bridges[b].dials = 0 THEN "dial"
                         ELSE "finally"]
    /\ UNCHANGED <<clientVars, tcpVars, udpVars, srvVars, disk, sessions,
                   feedVars, codecVars, acceptVars, corruption_rate,
                   corruptVars, udpProxyVars, pxPending, closeWakesRecv,
                   sideVars>>

\* target_socket = socket.socket(); target_socket.connect(...); then both
\* forward_tcp threads are created and started, or, when connect raises,
\* except Exception logs and the finally clause is next
ProxyDial(b) ==
    /\ bridges[b].hpc = "dial"
    /\ \E ok \in BOOLEAN :
          bridges' = [bridges EXCEPT
              ![b].dials = @ + 1,
              ![b].target_sock = "open",
              ![b].tasks = IF ok THEN 2 ELSE 0,
              ![b].fpc = IF ok THEN [d \in Dirs |-> "loop"] ELSE @,
              ![b].hpc = IF ok THEN "join" ELSE "finally"]
    /\ UNCHANGED <<clientVars, tcpVars, udpVars, srvVars, disk, sessions,
                   feedVars, codecVars, acceptVars, corruption_rate,
                   corruptVars, udpProxyVars, pxPending, closeWakesRecv,
                   sideVars>>

\* forward_tcp: "while self.running" and the call of source.recv, which
\* raises at once on a socket that is already closed
FwdEnterRecv(b, d) ==
    /\ bridges[b].fpc[d] = "loop"
    /\ bridges' = [bridges EXCEPT
          ![b].fpc[d] = IF SourceSock(bridges[b], d) = "closed"
                        THEN "finally" ELSE "recv"]
    /\ UNCHANGED <<clientVars, tcpVars, udpVars, srvVars, disk, sessions,
                   feedVars, codecVars, acceptVars, corruption_rate,
                   corruptVars, udpProxyVars, pxPending, closeWakesRecv,
                   sideVars>>

\* source.recv(CHUNK_SIZE) returns: up to CHUNK_SIZE of the bytes that
\* have arrived; b"" when the peer has closed (break); an error when the
\* other thread closed the socket and the platform wakes the call
FwdRecv(b, d) ==
    /\ bridges[b].fpc[d] = "recv"
    /\ LET br    == bridges[b]
           in    == SourceIn(br, d)
           woken == SourceSock(br, d) = "closed" /\ closeWakesRecv
       IN  \/ /\ woken
              /\ bridges' = [bridges EXCEPT ![b].fpc[d] = "finally"]
           \/ /\ ~woken /\ in # <<>>
              /\ \E k \in 1..Min(CHUNK_SIZE, Len(in)) :
                    bridges' = [bridges EXCEPT
                        ![b].buf[d] = SubSeq(in, 1, k),
                        ![b].read[d] = @ \o SubSeq(in, 1, k),
                        ![b].cIn = IF d = "c2t"
                                   THEN SubSeq(in, k + 1, Len(in)) ELSE @,
                        ![b].tIn = IF d = "t2c"
                                   THEN SubSeq(in, k + 1, Len(in)) ELSE @,
                        ![b].fpc[d] = "send"]
           \/ /\ ~woken /\ in = <<>> /\ SourceEnd(br, d) = "close"
              /\ bridges' = [bridges EXCEPT ![b].fpc[d] = "finally"]
    /\ UNCHANGED <<clientVars, tcpVars, udpVars, srvVars, disk, sessions,
                   feedVars, codecVars, acceptVars, corruption_rate,
                   corruptVars, udpProxyVars, pxPending, closeWakesRecv,
                   sideVars>>

\* FwdSend with destination.send in place of sendall: one byte is written
FwdSendOnce(b, d) ==
    /\ bridges[b].fpc[d] = "send"
    /\ LET br == bridges[b]
       IN  \E c \in (IF d = "c2t" THEN MaybeCorrupt(br.buf[d])
                     ELSE {[raised |-> FALSE, data |-> br.buf[d]]}) :
              IF c.raised \/ DestSock(br, d) = "closed"
              THEN bridges' = [bridges EXCEPT ![b].fpc[d] = "finally",
                                              ![b].buf[d] = <<>>]
              ELSE bridges' = [bridges EXCEPT
                      ![b].toTarget = IF d = "c2t"
                                      THEN @ \o SubSeq(c.data, 1, 1) ELSE @,
                      ![b].toClient = IF d = "t2c"
                                      THEN @ \o SubSeq(c.data, 1, 1) ELSE @,
                      ![b].buf[d] = <<>>,
                      ![b].fpc[d] = "loop"]
    /\ UNCHANGED <<clientVars, tcpVars, udpVars, srvVars, disk, sessions,
                   feedVars, codecVars, acceptVars, corruption_rate,
                   corruptVars, udpProxyVars, pxPending, closeWakesRecv,
                   sideVars>>

\* FwdSend of a forward_tcp that ignores its corrupt argument
FwdSendBothWays(b, d) ==
    /\ bridges[b].fpc[d] = "send"
    /\ LET br == bridges[b]
       IN  \E c \in MaybeCorrupt(br.buf[d]) :
              IF c.raised \/ DestSock(br, d) = "closed"
              THEN bridges' = [bridges EXCEPT ![b].fpc[d] = "finally",
                                              ![b].buf[d] = <<>>]
              ELSE bridges' = [bridges EXCEPT
                      ![b].toTarget = IF d = "c2t" THEN @ \o c.data ELSE @,
                      ![b].toClient = IF d = "t2c" THEN @ \o c.data ELSE @,
                      ![b].buf[d] = <<>>,
                      ![b].fpc[d] = "loop"]
    /\ UNCHANGED <<clientVars, tcpVars, udpVars, srvVars, disk, sessions,
                   feedVars, codecVars, acceptVars, corruption_rate,
                   corruptVars, udpProxyVars, pxPending, closeWakesRecv,
                   sideVars>>

\* corrupt_data when corrupt and corruption_rate > 0;
\* destination.sendall(data), which raises on a closed socket
FwdSend(b, d) ==
    /\ bridges[b].fpc[d] = "send"
    /\ LET br == bridges[b]
       IN  \E c \in (IF d = "c2t" THEN MaybeCorrupt(br.buf[d])
                     ELSE {[raised |-> FALSE, data |-> br.buf[d]]}) :
              IF c.raised \/ DestSock(br, d) = "closed"
              THEN bridges' = [bridges EXCEPT ![b].fpc[d] = "finally",
                                              ![b].buf[d] = <<>>]
              ELSE bridges' = [bridges EXCEPT
                      ![b].toTarget = IF d = "c2t" THEN @ \o c.data ELSE @,
                      ![b].toClient = IF d = "t2c" THEN @ \o c.data ELSE @,
                      ![b].buf[d] = <<>>,
                      ![b].fpc[d] = "loop"]
    /\ UNCHANGED <<clientVars, tcpVars, udpVars, srvVars, disk, sessions,
                   feedVars, codecVars, acceptVars, corruption_rate,
                   corruptVars, udpProxyVars, pxPending, closeWakesRecv,
                   sideVars>>

\* finally: source.close(); destination.close()
FwdFinally(b, d) ==
    /\ bridges[b].fpc[d] = "finally"
    /\ bridges' = [bridges EXCEPT ![b].client_sock = "closed",
                                  ![b].target_sock = "closed",
                                  ![b].fpc[d] = "done"]
    /\ UNCHANGED <<clientVars, tcpVars, udpVars, srvVars, disk, sessions,
                   feedVars, codecVars, acceptVars, corruption_rate,
                   corruptVars, udpProxyVars, pxPending, closeWakesRecv,
                   sideVars>>

\* client_to_target.join(); target_to_client.join()
ProxyJoin(b) ==
    /\ bridges[b].hpc = "join"
    /\ \A d \in Dirs : bridges[b].fpc[d] = "done"
    /\ bridges' = [bridges EXCEPT ![b].hpc = "finally"]
    /\ UNCHANGED <<clientVars, tcpVars, udpVars, srvVars, disk, sessions,
                   feedVars, codecVars, acceptVars, corruption_rate,
                   corruptVars, udpProxyVars, pxPending, closeWakesRecv,
                   sideVars>>

\* finally: client_socket.close(); handle_client_tcp returns
ProxyFinally(b) ==
    /\ bridges[b].hpc = "finally"
    /\ bridges' = [bridges EXCEPT ![b].client_sock = "closed",
                                  ![b].hpc = "returned"]
    /\ UNCHANGED <<clientVars, tcpVars, udpVars, srvVars, disk, sessions,
                   feedVars, codecVars, acceptVars, corruption_rate,
                   corruptVars, udpProxyVars, pxPending, closeWakesRecv,
                   sideVars>>

\* the steps of handle_client_tcp for bridge b, and of its forward_tcp
\* thread of direction d
HandleClientTcp(b) == ProxyDial(b) \/ ProxyJoin(b) \/ ProxyFinally(b)

ForwardTcp(b, d) ==
    FwdEnterRecv(b, d) \/ FwdRecv(b, d) \/ FwdSend(b, d) \/ FwdFinally(b, d)

(***************************************************************************)
(* services/discovery.py: DiscoveryService.  A datagram is a text; the     *)
(* texts told apart are the JSON objects, the other JSON values, the texts *)
(* that are not JSON and the bytes that are not UTF-8.                     *)
(***************************************************************************)
DEFAULT_SERVER_PORT == 8080

\* self.hostname
Hostname == "MyHost"

NoMembers == [k \in {} |-> None]

\* json.dumps(obj).encode("utf-8") of a dict
json_dumps(obj) == [form |-> "object", members |-> obj]

PingOf(h)    == json_dumps([type |-> "PING", hostname |-> h])
PongOf(h, p) == json_dumps([type |-> "PONG", hostname |-> h, port |-> p])

\* no datagram received yet
NoDatagram == [data |-> [form |-> "none", members |-> NoMembers],
               addr |-> [ip |-> "", port |-> 0]]

JsonArray == [form |-> "array", members |-> NoMembers]
NotJson   == [form |-> "text", members |-> NoMembers]
NotUtf8   == [form |-> "bytes", members |-> NoMembers]

\* json.loads(data.decode("utf-8")): the exception raised, or the value and
\* whether it is a dict
json_loads(data) ==
    CASE data.form = "bytes" ->
            [raised |-> "UnicodeDecodeError", dict |-> FALSE,
             value |-> NoMembers]
      [] data.form = "text" ->
            [raised |-> "JSONDecodeError", dict |-> FALSE,
             value |-> NoMembers]
      [] data.form = "array" ->
            [raised |-> "none", dict |-> FALSE, value |-> NoMembers]
      [] data.form = "object" ->
            [raised |-> "none", dict |-> TRUE, value |-> data.members]

\* d.get(key, default)
Get(d, key, default) == IF key \in DOMAIN d THEN d[key] ELSE default

(***************************************************************************)
(* DiscoveryService.scan.                                                  *)
(***************************************************************************)
MaxScanIn == 3

ScanTimeouts == {0, 2}

TestPeerAddr  == [ip |-> "192.168.1.10", port |-> 37020]
SameHostAddr  == [ip |-> "192.168.1.10", port |-> 40000]
OtherPeerAddr == [ip |-> "192.168.1.20", port |-> 37020]
ScanAddrs == {TestPeerAddr, SameHostAddr, OtherPeerAddr}

ScanData ==
    {PongOf("TestPeer", 8080), PongOf("Other", 8080),
     PongOf("TestPeer", 9090),
     json_dumps([type |-> "PONG", hostname |-> "TestPeer"]),
     PingOf("Scanner"), JsonArray, NotJson, NotUtf8}

\* the peer dict built from a PONG
PeerOf(response, addr) ==
    [hostname |-> Get(response, "hostname", None),
     ip |-> addr.ip,
     port |-> Get(response, "port", DEFAULT_SERVER_PORT)]

\* scan_handle of a scan that also compares the hostnames
scan_handle_by_name(peers, data, addr) ==
    LET r == json_loads(data)
    IN  IF r.raised # "none" \/ ~r.dict
        THEN [peers |-> peers, escapes |-> FALSE]
        ELSE IF Get(r.value, "type", None) = "PONG"
        THEN LET peer == PeerOf(r.value, addr)
             IN  [peers |-> IF \E i \in 1..Len(peers) : peers[i] = peer
                            THEN peers
                            ELSE Append(peers, peer),
                  escapes |-> FALSE]
        ELSE [peers |-> peers, escapes |-> FALSE]

\* the body of the receive loop for one datagram: JSONDecodeError is caught
\* and the loop continues; UnicodeDecodeError and the AttributeError of
\* response.get on a value that is no dict are caught by except Exception,
\* which continues too; a PONG is appended unless a peer with its ip and
\* port is in the list
scan_handle(peers, data, addr) ==
    LET r == json_loads(data)
    IN  IF r.raised # "none" \/ ~r.dict
        THEN [peers |-> peers, escapes |-> FALSE]
        ELSE IF Get(r.value, "type", None) = "PONG"
        THEN LET peer == PeerOf(r.value, addr)
             IN  [peers |-> IF \E i \in 1..Len(peers) :
                                  /\ peers[i].ip = peer.ip
                                  /\ peers[i].port = peer.port
                            THEN peers
                            ELSE Append(peers, peer),
                  escapes |-> FALSE]
        ELSE [peers |-> peers, escapes |-> FALSE]

\* discovered_peers = []; the socket is created, bound, and the PING is sent
\* to every broadcast address (a failed send is logged and skipped);
\* start_time = time.time()
ScanStart ==
    /\ scanPc = "idle"
    /\ discovered_peers' = <<>>
    /\ scanElapsed' = 0
    /\ scanPc' = "loop"
    /\ UNCHANGED <<scanTimeout, scanIn, scanLast, listenVars, throttleVars,
                   clientVars, tcpVars, udpVars, srvVars, disk, sessions,
                   feedVars, codecVars, acceptVars, proxyVars>>

\* while time.time() - start_time < timeout
ScanLoop ==
    /\ scanPc = "loop"
    /\ scanPc' = IF scanElapsed < scanTimeout THEN "recvfrom" ELSE "returned"
    /\ UNCHANGED <<scanTimeout, scanElapsed, scanIn, scanLast,
                   discovered_peers, listenVars, throttleVars,
                   clientVars, tcpVars, udpVars, srvVars, disk, sessions,
                   feedVars, codecVars, acceptVars, proxyVars>>

\* data, addr = s.recvfrom(...) returns a datagram that arrived before the
\* socket timeout, and the body of the loop handles it
ScanRecvfrom ==
    /\ scanPc = "recvfrom" /\ scanIn < MaxScanIn
    /\ \E wait \in 0..scanTimeout - 1, data \in ScanData, addr \in ScanAddrs :
          LET h == scan_handle(discovered_peers, data, addr)
          IN  /\ scanElapsed' = scanElapsed + wait
              /\ scanLast' = [data |-> data, addr |-> addr]
              /\ discovered_peers' = h.peers
              /\ scanPc' = IF h.escapes THEN "raised" ELSE "loop"
    /\ scanIn' = scanIn + 1
    /\ UNCHANGED <<scanTimeout, listenVars, throttleVars,
                   clientVars, tcpVars, udpVars, srvVars, disk, sessions,
                   feedVars, codecVars, acceptVars, proxyVars>>

\* recvfrom raises socket.timeout / TimeoutError after the socket timeout:
\* break
ScanRecvTimeout ==
    /\ scanPc = "recvfrom"
    /\ scanElapsed' = scanElapsed + scanTimeout
    /\ scanPc' = "returned"
    /\ UNCHANGED <<scanTimeout, scanIn, scanLast, discovered_peers,
                   listenVars, throttleVars,
                   clientVars, tcpVars, udpVars, srvVars, disk, sessions,
                   feedVars, codecVars, acceptVars, proxyVars>>

\* recvfrom raises another exception: except Exception: continue
ScanRecvError ==
    /\ scanPc = "recvfrom" /\ scanIn < MaxScanIn
    /\ \E wait \in 0..scanTimeout - 1 : scanElapsed' = scanElapsed + wait
    /\ scanIn' = scanIn + 1
    /\ scanPc' = "loop"
    /\ UNCHANGED <<scanTimeout, scanLast, discovered_peers,
                   listenVars, throttleVars,
                   clientVars, tcpVars, udpVars, srvVars, disk, sessions,
                   feedVars, codecVars, acceptVars, proxyVars>>

(***************************************************************************)
(* DiscoveryService.listen, its _listen_loop thread, and stop.             *)
(***************************************************************************)
MaxListenIn == 3

ListenPorts == {DEFAULT_SERVER_PORT, 9000}

ScannerAddr == [ip |-> "192.168.1.20", port |-> 37020]
ListenAddrs == {ScannerAddr, TestPeerAddr}

ListenData ==
    {PingOf("Scanner"), json_dumps([type |-> "PING"]),
     PongOf("TestPeer", 8080), JsonArray, NotJson, NotUtf8}

\* listen_handle of a listener that announces the default port
listen_handle_default_port(sent, data, addr, port) ==
    LET r == json_loads(data)
    IN  IF r.raised # "none" \/ ~r.dict
        THEN [sent |-> sent, escapes |-> FALSE]
        ELSE IF Get(r.value, "type", None) = "PING"
        THEN [sent |-> Append(sent,
                 [data |-> json_dumps([type |-> "PONG",
                                       hostname |-> Hostname,
                                       port |-> DEFAULT_SERVER_PORT]),
                  addr |-> addr]),
              escapes |-> FALSE]
        ELSE [sent |-> sent, escapes |-> FALSE]

\* the body of the listen loop for one datagram: JSONDecodeError is caught
\* and the loop continues; any other exception is caught by except
\* Exception at the end of the body; a PING is answered with
\* s.sendto(response_json, addr)
listen_handle(sent, data, addr, port) ==
    LET r == json_loads(data)
    IN  IF r.raised # "none" \/ ~r.dict
        THEN [sent |-> sent, escapes |-> FALSE]
        ELSE IF Get(r.value, "type", None) = "PING"
        THEN [sent |-> Append(sent,
                 [data |-> json_dumps([type |-> "PONG",
                                       hostname |-> Hostname,
                                       port |-> port]),
                  addr |-> addr]),
              escapes |-> FALSE]
        ELSE [sent |-> sent, escapes |-> FALSE]

\* listen(port): self.running = True; the thread is started and binds its
\* socket to the discovery port
Listen ==
    /\ lisPc = "idle"
    /\ running' = TRUE
    /\ lisPc' = "loop"
    /\ UNCHANGED <<lisPort, lisInbox, lisIn, lisLast, lisSent, scanVars,
                   throttleVars,
                   clientVars, tcpVars, udpVars, srvVars, disk, sessions,
                   feedVars, codecVars, acceptVars, proxyVars>>

\* while self.running
ListenLoop ==
    /\ lisPc = "loop"
    /\ lisPc' = IF running THEN "recvfrom" ELSE "exited"
    /\ UNCHANGED <<running, lisPort, lisInbox, lisIn, lisLast, lisSent,
                   scanVars, throttleVars,
                   clientVars, tcpVars, udpVars, srvVars, disk, sessions,
                   feedVars, codecVars, acceptVars, proxyVars>>

\* data, addr = s.recvfrom(...): the socket has no timeout, the call
\* returns when a datagram is there; the body of the loop handles it
ListenRecvfrom ==
    /\ lisPc = "recvfrom" /\ lisInbox # <<>>
    /\ LET d == Head(lisInbox)
           h == listen_handle(lisSent, d.data, d.addr, lisPort)
       IN  /\ lisLast' = d
           /\ lisSent' = h.sent
           /\ lisPc' = IF h.escapes THEN "raised" ELSE "loop"
    /\ lisInbox' = Tail(lisInbox)
    /\ UNCHANGED <<running, lisPort, lisIn, scanVars, throttleVars,
                   clientVars, tcpVars, udpVars, srvVars, disk, sessions,
                   feedVars, codecVars, acceptVars, proxyVars>>

\* somebody sends a datagram to the discovery port
ListenArrive ==
    /\ lisPc \in {"loop", "recvfrom"} /\ lisIn < MaxListenIn
    /\ \E data \in ListenData, addr \in ListenAddrs :
          lisInbox' = Append(lisInbox, [data |-> data, addr |-> addr])
    /\ lisIn' = lisIn + 1
    /\ UNCHANGED <<running, lisPc, lisPort, lisLast, lisSent, scanVars,
                   throttleVars,
                   clientVars, tcpVars, udpVars, srvVars, disk, sessions,
                   feedVars, codecVars, acceptVars, proxyVars>>

\* stop(): self.running = False
Stop ==
    /\ running
    /\ running' = FALSE
    /\ UNCHANGED <<lisPc, lisPort, lisInbox, lisIn, lisLast, lisSent,
                   scanVars, throttleVars,
                   clientVars, tcpVars, udpVars, srvVars, disk, sessions,
                   feedVars, codecVars, acceptVars, proxyVars>>

\* the steps of the _listen_loop thread
ListenThread == ListenLoop \/ ListenRecvfrom

(***************************************************************************)
(* Initial states and specifications.                                      *)
(***************************************************************************)
ClientIdle ==
    /\ files = <<>> /\ chunk_size = CHUNK_SIZE
    /\ cpc = "idle" /\ cIdx = 0 /\ cOff = 0
    /\ sockets = 0 /\ connects = 0

WireEmpty ==
    /\ tcpStream = <<>> /\ tcpClosed = FALSE
    /\ udpSent = <<>> /\ udpPos = 0

ServerFresh ==
    /\ spc = "listen" /\ rpos = 0
    /\ rxN = 0 /\ rxData = <<>> /\ rxEof = FALSE
    /\ header = None /\ filename = None /\ file_hash = None
    /\ received_bytes = 0 /\ written = <<>>
    /\ disk = EmptyDisk
    /\ sessions = [a \in {} |-> None]

FeedFresh ==
    /\ fed = 0 /\ lastAddr = None /\ lastData = <<>> /\ lastEvent = None
    /\ trace = [a \in Addrs |-> <<>>]
    /\ alone = [a \in Addrs |-> FALSE]

CodecIdle ==
    /\ codecPc = "idle" /\ codecArgs = None
    /\ codecBytes = <<>> /\ codecHeader = None

AcceptIdle ==
    /\ pending = <<>> /\ accepted = <<>>
    /\ tcpReset = FALSE /\ handled = <<>>

CorruptIdle ==
    /\ corruptPc = "idle" /\ corruptData = <<>> /\ corruptOut = None

UdpProxyIdle ==
    /\ udp_sessions = [a \in {} |-> 0] /\ udp_sessions_lock = LockFree
    /\ socks = <<>>
    /\ dpc = "idle" /\ dData = <<>> /\ dAddr = None /\ dSock = 0
    /\ pxIn = 0 /\ pxReplies = 0
    /\ lastRelay = NoRelay

TcpProxyIdle ==
    /\ pxPending = <<>> /\ bridges = <<>> /\ closeWakesRecv = FALSE

ProxyIdle ==
    /\ corruption_rate = 0 /\ CorruptIdle /\ UdpProxyIdle /\ TcpProxyIdle

ThrottleIdle == delay = 0 /\ calls = <<>>

ScanIdle ==
    /\ scanPc = "idle" /\ scanTimeout = 0 /\ scanElapsed = 0 /\ scanIn = 0
    /\ scanLast = NoDatagram /\ discovered_peers = <<>>

\* DiscoveryService(hostname): self.running = False
ListenIdle ==
    /\ running = FALSE /\ lisPc = "idle" /\ lisPort = 0
    /\ lisInbox = <<>> /\ lisIn = 0 /\ lisLast = NoDatagram /\ lisSent = <<>>

DiscoveryIdle == ScanIdle /\ ListenIdle

SideIdle == ThrottleIdle /\ DiscoveryIdle

ServicesIdle == AcceptIdle /\ ProxyIdle /\ SideIdle

\* one call of send_files to a freshly started server of the same protocol
Init ==
    /\ protocol \in {"tcp", "udp"}
    /\ files \in Batches
    /\ chunk_size \in ChunkSizes
    /\ cpc = "start" /\ cIdx = 0 /\ cOff = 0
    /\ sockets = 0 /\ connects = 0
    /\ WireEmpty /\ ServerFresh /\ FeedFresh /\ CodecIdle
    /\ AcceptIdle /\ ProxyIdle /\ DiscoveryIdle
    /\ delay \in Delays /\ calls = <<>>

TcpClient ==
    \/ TcpNoValidFiles \/ TcpConnect \/ TcpConnectFails
    \/ TcpSendHeader \/ TcpSendMetadata \/ TcpSendChunk \/ TcpFileDone

TcpServer ==
    \/ TcpAccept \/ TcpRecv \/ TcpGotHeader \/ TcpGotName \/ TcpGotHash
    \/ TcpGotChunk \/ TcpWriteSidecar

UdpClient ==
    \/ UdpNoValidFiles \/ UdpSocket
    \/ UdpSendHeader \/ UdpSendMetadata \/ UdpSendChunk \/ UdpFileDone

Next == TcpClient \/ TcpServer \/ UdpClient \/ UdpServe

Spec == Init /\ [][Next]_vars

\* a UDP server alone, fed datagrams
InitFeed ==
    /\ protocol = "udp"
    /\ ClientIdle /\ WireEmpty /\ ServerFresh /\ FeedFresh /\ CodecIdle
    /\ ServicesIdle

NextFeed == FeedDatagram

SpecFeed == InitFeed /\ [][NextFeed]_vars

\* the header codec alone
InitCodec ==
    /\ protocol = "none"
    /\ ClientIdle /\ WireEmpty /\ ServerFresh /\ FeedFresh
    /\ codecPc = "args" /\ codecArgs \in CodecInputs
    /\ codecBytes = <<>> /\ codecHeader = None
    /\ ServicesIdle

NextCodec == CodecPack \/ CodecResize \/ CodecUnpack

SpecCodec == InitCodec /\ [][NextCodec]_vars

\* a TCP server alone, its listening socket holding the connections of
\* PeerQueues
InitAccept ==
    /\ protocol = "tcp"
    /\ ClientIdle /\ WireEmpty /\ ServerFresh /\ FeedFresh /\ CodecIdle
    /\ pending \in PeerQueues /\ accepted = <<>>
    /\ tcpReset = FALSE /\ handled = <<>>
    /\ ProxyIdle /\ SideIdle

NextAccept ==
    \/ TcpAcceptNext \/ TcpRecv \/ TcpRecvReset \/ TcpGotHeader
    \/ TcpGotName \/ TcpGotHash \/ TcpGotChunk \/ TcpWriteSidecar
    \/ TcpHandled

\* corrupt_data alone, as test_corrupt_data and test_no_corruption call it
InitCorrupt ==
    /\ protocol = "none"
    /\ ClientIdle /\ WireEmpty /\ ServerFresh /\ FeedFresh /\ CodecIdle
    /\ SideIdle
    /\ AcceptIdle
    /\ corruption_rate \in Rates
    /\ corruptPc = "args" /\ corruptData \in CorruptInputs
    /\ corruptOut = None
    /\ UdpProxyIdle /\ TcpProxyIdle

NextCorrupt == CorruptCall

SpecCorrupt == InitCorrupt /\ [][NextCorrupt]_vars

\* ProxyServer(..., protocol="udp").start()
InitProxyUdp ==
    /\ protocol = "udp"
    /\ ClientIdle /\ WireEmpty /\ ServerFresh /\ FeedFresh /\ CodecIdle
    /\ SideIdle
    /\ AcceptIdle /\ CorruptIdle /\ TcpProxyIdle
    /\ corruption_rate \in Rates
    /\ udp_sessions = [a \in {} |-> 0] /\ udp_sessions_lock = LockFree
    /\ socks = <<>>
    /\ dpc = "recvfrom" /\ dData = <<>> /\ dAddr = None /\ dSock = 0
    /\ pxIn = 0 /\ pxReplies = 0
    /\ lastRelay = NoRelay

UdpProxyMain ==
    \/ UdpProxyRecvfrom \/ UdpProxyLock \/ UdpProxySession
    \/ UdpProxyForward

UdpReplyTask(k) ==
    \/ UdpReplyRecv(k) \/ UdpReplyError(k) \/ UdpReplyLock(k)
    \/ UdpReplyRemove(k) \/ UdpReplyClose(k)

NextProxyUdp ==
    \/ UdpProxyMain
    \/ \E k \in 1..Len(socks) : UdpReplyTask(k) \/ TargetReply(k)

SpecProxyUdp == InitProxyUdp /\ [][NextProxyUdp]_vars

\* ProxyServer(..., protocol="tcp").start(), on either kind of platform
InitProxyTcp ==
    /\ protocol = "tcp"
    /\ ClientIdle /\ WireEmpty /\ ServerFresh /\ FeedFresh /\ CodecIdle
    /\ SideIdle
    /\ AcceptIdle /\ CorruptIdle /\ UdpProxyIdle
    /\ corruption_rate \in Rates
    /\ pxPending \in PxQueues /\ bridges = <<>>
    /\ closeWakesRecv \in BOOLEAN

NextProxyTcp ==
    \/ ProxyAccept
    \/ \E b \in 1..Len(bridges) :
          \/ HandleClientTcp(b)
          \/ \E d \in Dirs : ForwardTcp(b, d)

\* every thread of the proxy that can take a step eventually takes one
FairProxyTcp ==
    /\ WF_vars(ProxyAccept)
    /\ \A b \in 1..MaxBridges :
          /\ WF_vars(b <= Len(bridges) /\ HandleClientTcp(b))
          /\ \A d \in Dirs :
                WF_vars(b <= Len(bridges) /\ ForwardTcp(b, d))

SpecProxyTcp == InitProxyTcp /\ [][NextProxyTcp]_vars /\ FairProxyTcp

\* a proxy started for either protocol
InitProxy == InitProxyUdp \/ InitProxyTcp

NextProxy == NextProxyUdp \/ NextProxyTcp

SpecProxy == InitProxy /\ [][NextProxy]_vars

\* DiscoveryService().scan(timeout)
InitScan ==
    /\ protocol = "udp"
    /\ ClientIdle /\ WireEmpty /\ ServerFresh /\ FeedFresh /\ CodecIdle
    /\ AcceptIdle /\ ProxyIdle /\ ThrottleIdle /\ ListenIdle
    /\ scanPc = "idle" /\ scanTimeout \in ScanTimeouts
    /\ scanElapsed = 0 /\ scanIn = 0
    /\ scanLast = NoDatagram /\ discovered_peers = <<>>

NextScan ==
    \/ ScanStart \/ ScanLoop \/ ScanRecvfrom \/ ScanRecvTimeout
    \/ ScanRecvError

SpecScan == InitScan /\ [][NextScan]_vars

\* DiscoveryService(hostname).listen(port), and stop() at any moment
InitListen ==
    /\ protocol = "udp"
    /\ ClientIdle /\ WireEmpty /\ ServerFresh /\ FeedFresh /\ CodecIdle
    /\ AcceptIdle /\ ProxyIdle /\ ThrottleIdle /\ ScanIdle
    /\ running = FALSE /\ lisPc = "idle" /\ lisPort \in ListenPorts
    /\ lisInbox = <<>> /\ lisIn = 0 /\ lisLast = NoDatagram /\ lisSent = <<>>

NextListen == Listen \/ ListenThread \/ ListenArrive \/ Stop

SpecListen == InitListen /\ [][NextListen]_vars


\* handle_client alone on one connection whose peer writes a finite stream
\* and closes: the streams of PeerStreams, a frame of an empty file, and a
\* stream closed inside the header of its second frame
FrameEmpty == WireFrame(NameA, <<>>, calculate_hash(<<>>))

HandleStreams ==
    PeerStreams \cup {FrameEmpty \o FrameB, FrameB \o Cut(FrameA, 8)}

\* header, filename and file_hash are locals of handle_client, unbound
\* until their first assignment: they start as a header of zeros and empty
\* strings, which no step reads
UnboundHeader == unpack_header([i \in 1..HEADER_SIZE |-> 0])

InitHandle ==
    /\ protocol = "tcp"
    /\ ClientIdle /\ WireEmpty /\ FeedFresh /\ CodecIdle
    /\ spc = "listen" /\ rpos = 0
    /\ rxN = 0 /\ rxData = <<>> /\ rxEof = FALSE
    /\ header = UnboundHeader /\ filename = <<>> /\ file_hash = <<>>
    /\ received_bytes = 0 /\ written = <<>>
    /\ disk = EmptyDisk
    /\ sessions = [a \in {} |-> None]
    /\ \E s \in HandleStreams : pending = <<[stream |-> s, end |-> "close"]>>
    /\ accepted = <<>> /\ tcpReset = FALSE /\ handled = <<>>
    /\ ProxyIdle /\ SideIdle

NextHandle ==
    \/ TcpAcceptNext \/ TcpRecv \/ TcpGotHeader \/ TcpGotName
    \/ TcpGotHash \/ TcpGotChunk \/ TcpWriteSidecar \/ TcpHandled

\* the thread of the server keeps running
SpecHandle == InitHandle /\ [][NextHandle]_vars /\ WF_vars(NextHandle)

\* a receiving server alone, TCP or UDP
InitServers == InitAccept \/ InitFeed

NextServers == NextAccept \/ NextFeed

SpecServers == InitServers /\ [][NextServers]_vars

(***************************************************************************)
(* Properties.                                                             *)
(***************************************************************************)
\* number of bytes of the UTF-8 encoding of one code point
Utf8CharLen(cp) ==
    IF cp < 128 THEN 1 ELSE IF cp < 2048 THEN 2 ELSE IF cp < 65536 THEN 3 ELSE 4

\* number of bytes of the UTF-8 encoding of the characters lo..hi of str
RECURSIVE Utf8LenRange(_, _, _)
Utf8LenRange(str, lo, hi) ==
    IF lo > hi THEN 0
    ELSE IF lo = hi THEN Utf8CharLen(str[lo])
    ELSE LET m == (lo + hi) \div 2
         IN  Utf8LenRange(str, lo, m) + Utf8LenRange(str, m + 1, hi)

\* number of bytes of the UTF-8 encoding of a str
Utf8Len(str) == Utf8LenRange(str, 1, Len(str))

\* total length of a sequence of byte strings
RECURSIVE SumLen(_)
SumLen(seqs) == IF seqs = <<>> THEN 0 ELSE Len(Head(seqs)) + SumLen(Tail(seqs))

\* the existing files of the batch, in list order
ExistingFiles == SelectSeq(files, Exists)

\* C6: header round trip.  pack_header always yields exactly 16 bytes, and
\* unpack_header of them gives back the opcode and the file size, name_len
\* equal to the UTF-8 byte length of the file name and hash_len equal to
\* the UTF-8 byte length of the hash.
C6_HeaderRoundTrip ==
    /\ codecPc \in {"packed", "unpacked"} => Len(codecBytes) = 16
    /\ codecPc = "unpacked" =>
        /\ IsHeader(codecHeader)
        /\ codecHeader.op_code = codecArgs.op_code
        /\ codecHeader.file_size = codecArgs.file_size
        /\ codecHeader.name_len = Utf8Len(codecArgs.filename)
        /\ codecHeader.hash_len = Utf8Len(codecArgs.file_hash)

\* a header was unpacked whose name is longer in bytes than in characters
\* and whose name length and file size need more than one byte
C6_Witness ==
    /\ codecPc = "unpacked"
    /\ codecArgs.filename = Repeat(233, 300)
    /\ codecHeader.name_len = 600
    /\ codecArgs.file_size = 65536
    /\ codecArgs.file_hash # <<>>

C8_NoValidFilesNoIO ==
    /\ (\A i \in 1..Len(files) : ~Exists(files[i])) =>
        /\ cpc \in {"start", "FileNotFoundError"}
        /\ sockets = 0 /\ connects = 0
        /\ tcpStream = <<>> /\ udpSent = <<>>
    /\ cpc = "FileNotFoundError" => \A i \in 1..Len(files) : ~Exists(files[i])

\* a client raised the error for a non-empty batch of missing paths
C8_Witness ==
    cpc = "FileNotFoundError" /\ Len(files) = 2

\* the byte stream is exactly the frames of the files ps, in order: for
\* each a 16-byte header, the file name, the hash and the content, with the
\* header's lengths those of what follows
RECURSIVE FramesOf(_, _)
FramesOf(stream, ps) ==
    IF ps = <<>> THEN stream = <<>>
    ELSE /\ Len(stream) >= HEADER_SIZE
         /\ LET p       == Head(ps)
                h       == unpack_header(SubSeq(stream, 1, HEADER_SIZE))
                nameEnd == HEADER_SIZE + h.name_len
                hashEnd == nameEnd + h.hash_len
                end     == hashEnd + h.file_size
                hash    == Utf8Encode(calculate_hash(SrcContent(p)))
            IN  /\ h.op_code = OP_FILE
                /\ h.name_len = Utf8Len(p.name)
                /\ h.hash_len = Len(hash)
                /\ h.file_size = Len(SrcContent(p))
                /\ Len(stream) >= end
                /\ Slice(stream, HEADER_SIZE, nameEnd) = Utf8Encode(p.name)
                /\ Slice(stream, nameEnd, hashEnd) = hash
                /\ Slice(stream, hashEnd, end) = SrcContent(p)
                /\ FramesOf(Slice(stream, end, Len(stream)), Tail(ps))

\* C3: TCPClient.send_files opens one connection per call; when it returns
\* the bytes written to it are exactly the frames of the existing files in
\* list order, and the connection is closed only after the last file.
C3_TcpWireSequence ==
    protocol = "tcp" =>
        /\ connects <= 1 /\ sockets <= 1
        /\ tcpStream # <<>> => connects = 1
        /\ tcpClosed => cpc = "done"
        /\ cpc = "done" =>
            /\ connects = 1 /\ tcpClosed
            /\ FramesOf(tcpStream, ExistingFiles)

\* the client has sent a file with a two-byte name and a three-byte file in
\* one call
C3_Witness ==
    /\ protocol = "tcp" /\ cpc = "done"
    /\ files = <<PathE, PathA1>>
    /\ chunk_size = 2

\* the bytes and the hash string of the i-th file of the batch
SentBytes(i) == SrcContent(files[i])
SentHash(i)  == calculate_hash(SrcContent(files[i]))

\* handle_client has returned after the client sent its batch and closed
TcpTransferOver == protocol = "tcp" /\ cpc = "done" /\ spc = "returned"

\* save_dir/<filename> holds the bytes of the i-th file of the batch
FileHolds(i) ==
    /\ files[i].name \in DOMAIN disk
    /\ disk[files[i].name] = SentBytes(i)

\* save_dir/<filename>.sha256 holds the hash string of the i-th file
SidecarHolds(i) ==
    /\ HashPath(files[i].name) \in DOMAIN disk
    /\ disk[HashPath(files[i].name)] = Utf8Encode(SentHash(i))

\* C1 as claimed: once handle_client has returned, for every existing file
\* of the batch save_dir/<filename> holds the sender's bytes and
\* save_dir/<filename>.sha256 the hash the client computed.
C1_EveryFileStored ==
    TcpTransferOver =>
        \A i \in 1..Len(files) :
            Exists(files[i]) => FileHolds(i) /\ SidecarHolds(i)

\* no later file of the batch writes save_dir/<filename> with other bytes:
\* none has the same name and other bytes, none has a sidecar of that name
FileKept(i) ==
    \A j \in (i + 1)..Len(files) :
        Exists(files[j]) =>
            /\ files[j].name = files[i].name => SentBytes(j) = SentBytes(i)
            /\ HashPath(files[j].name) # files[i].name

\* no later file of the batch writes save_dir/<filename>.sha256 with other
\* bytes: none is called <filename>.sha256, none has the same name and
\* other bytes
SidecarKept(i) ==
    \A j \in (i + 1)..Len(files) :
        Exists(files[j]) =>
            /\ files[j].name = files[i].name => SentBytes(j) = SentBytes(i)
            /\ files[j].name # HashPath(files[i].name)

\* C1 as amended: once handle_client has returned, every existing file of
\* the batch whose destination no later file of the batch overwrites is
\* stored with the sender's bytes, and its sidecar, unless a later file
\* overwrites it, holds the hash the client computed.
C1_KeptFilesStored ==
    TcpTransferOver =>
        \A i \in 1..Len(files) :
            Exists(files[i]) =>
                /\ FileKept(i) => FileHolds(i)
                /\ SidecarKept(i) => SidecarHolds(i)

\* a batch of two files of the same name was received: the second one is
\* stored, a three-byte file received in chunks
C1_Witness ==
    /\ TcpTransferOver
    /\ files = <<PathA2, PathA1>>
    /\ disk[NameA] = <<1, 2, 3>>

\* what the server must have written for the file p
Received(p) ==
    [filename  |-> p.name,
     content   |-> SrcContent(p),
     file_hash |-> calculate_hash(SrcContent(p))]

\* C2: fed the frames of the client followed by EOF, handle_client writes
\* the files in the order sent, each with its own name, content and hash,
\* however recv splits the stream, and returns without an exception;
\* _recv_exact returns exactly n bytes, or b"" when the peer has closed and
\* nothing is left to read.
C2_FramesInOrder ==
    protocol = "tcp" =>
        /\ spc # "error"
        /\ (spc \in RecvStages /\ RecvReturned) =>
            \/ Len(RecvResult) = rxN
            \/ RecvResult = <<>> /\ tcpClosed /\ rpos = Len(tcpStream)
        /\ Len(written) <= Len(ExistingFiles)
        /\ \A i \in 1..Len(written) : written[i] = Received(ExistingFiles[i])
        /\ spc = "returned" =>
            /\ Len(written) = Len(ExistingFiles)
            /\ rpos = Len(tcpStream)

\* two frames were received on one connection, the first with a three-byte
\* content
C2_Witness ==
    /\ protocol = "tcp" /\ spc = "returned"
    /\ Len(written) = 2
    /\ written[1].content = <<1, 2, 3>>
    /\ written[2].filename = NameE

\* the datagrams dgs are, for each file of ps in order, a 16-byte header, a
\* metadata datagram of name_len + hash_len bytes and one or more content
\* datagrams that sum to file_size
RECURSIVE DatagramsOf(_, _)
DatagramsOf(dgs, ps) ==
    IF ps = <<>> THEN dgs = <<>>
    ELSE /\ Len(dgs) >= 3
         /\ Len(dgs[1]) = HEADER_SIZE
         /\ LET p == Head(ps)
                h == unpack_header(dgs[1])
            IN  /\ h.name_len = Utf8Len(p.name)
                /\ h.file_size = Len(SrcContent(p))
                /\ Len(dgs[2]) = h.name_len + h.hash_len
                /\ dgs[2] = Utf8Encode(p.name)
                            \o Utf8Encode(calculate_hash(SrcContent(p)))
                /\ \E k \in 1..(Len(dgs) - 2) :
                    /\ SumLen(SubSeq(dgs, 3, k + 2)) = h.file_size
                    /\ Concat(SubSeq(dgs, 3, k + 2)) = SrcContent(p)
                    /\ DatagramsOf(SubSeq(dgs, k + 3, Len(dgs)), Tail(ps))

\* C5 as claimed: for each file the UDP client sends three or more
\* datagrams in order, the 16-byte header, the metadata of name_len +
\* hash_len bytes and one or more content datagrams that sum to file_size,
\* and no datagram of a later file before the last one of an earlier file.
C5_ThreeOrMoreDatagrams ==
    (protocol = "udp" /\ cpc = "done") => DatagramsOf(udpSent, ExistingFiles)

\* the datagrams processed for a since its session began are, in order, a
\* header, the metadata it announces with a usable file name, and one or
\* more content datagrams totalling file_size bytes
InOrderTransfer(a) ==
    LET t == trace[a]
    IN  /\ Len(t) >= 3
        /\ Len(t[1]) = HEADER_SIZE
        /\ LET h          == unpack_header(t[1])
               name_bytes == Slice(t[2], 0, h.name_len)
           IN  /\ Len(t[2]) = h.name_len + h.hash_len
               /\ Utf8Valid(t[2])
               /\ ~OpenFails(Utf8Decode(name_bytes))
               /\ SumLen(SubSeq(t, 3, Len(t))) = h.file_size

\* the file name and the content of such a transfer
TransferName(a) ==
    Utf8Decode(Slice(trace[a][2], 0, unpack_header(trace[a][1]).name_len))
TransferContent(a) == Concat(SubSeq(trace[a], 3, Len(trace[a])))

\* C4: after process_datagram has been given, for an address without a
\* session, the header, the metadata and the content datagrams totalling
\* file_size, in that order, while no other address wrote to the same
\* file, the destination file holds exactly the content bytes and the
\* address has no session.
C4_InOrderTransferStored ==
    \A a \in Addrs :
        (lastAddr = a /\ InOrderTransfer(a) /\ alone[a]) =>
            /\ a \notin DOMAIN sessions
            /\ TransferName(a) \in DOMAIN disk
            /\ disk[TransferName(a)] = TransferContent(a)

\* a two-byte file was received in two content datagrams
C4_Witness ==
    /\ lastAddr = ClientAddr
    /\ InOrderTransfer(ClientAddr) /\ alone[ClientAddr]
    /\ trace[ClientAddr] = <<HeaderTwo, MetaAB, <<1>>, <<1>>>>

\* C9 as claimed: after every return of process_datagram no session in
\* RECEIVING_CONTENT has received_bytes >= header.file_size, for every
\* declared file_size, 0 included.
C9_NoCompleteSessionLeft ==
    \A a \in DOMAIN sessions :
        sessions[a].state = "RECEIVING_CONTENT" =>
            sessions[a].received_bytes < sessions[a].header.file_size

\* the session of address a is the same before and after the step
SessionUntouched(a) ==
    /\ (a \in DOMAIN sessions) = (a \in DOMAIN sessions')
    /\ a \in DOMAIN sessions => sessions'[a] = sessions[a]

\* the step processes, for an address waiting for its metadata, a metadata
\* datagram of the right length whose name is not UTF-8 or not a file
RaisingStep ==
    /\ lastAddr' \in DOMAIN sessions
    /\ sessions[lastAddr'].state = "WAITING_METADATA"
    /\ Len(lastData') = sessions[lastAddr'].header.name_len
                        + sessions[lastAddr'].header.hash_len
    /\ lastData' \in {MetaBadUtf, MetaDot}

\* C10: process_datagram(data, addr) leaves the session of every other
\* address as it was, and when it raises it removes the session of addr
\* and no other.
C10_SessionIsolation ==
    [][/\ \A a \in Addrs \ {lastAddr'} : SessionUntouched(a)
       /\ RaisingStep => lastAddr' \notin DOMAIN sessions']_vars

\* processing raised for one address while the other address has a session
\* that has received content
C10_Witness ==
    /\ lastEvent = "exception"
    /\ \E b \in Addrs \ {lastAddr} :
        /\ b \in DOMAIN sessions
        /\ sessions[b].state = "RECEIVING_CONTENT"
        /\ sessions[b].received_bytes > 0

(***************************************************************************)
(* TCPServer.start and handle_client against peers of any behaviour.       *)
(***************************************************************************)
\* the connection being handled, or the last one handled
CurPeer == accepted[Len(accepted)]

\* handle_client is inside conn.recv, nothing has arrived, and the peer
\* neither closes nor resets: the call does not return
BlockedOnPeer ==
    /\ spc \in RecvStages /\ ~RecvReturned
    /\ rpos = Len(tcpStream) /\ ~tcpClosed /\ ~tcpReset

\* the last n entries of a sequence
LastN(seq, n) == SubSeq(seq, Len(seq) - n + 1, Len(seq))

\* the stream of a batch of files, each a record like those of written
StreamOf(fs) ==
    Concat([i \in 1..Len(fs) |->
              WireFrame(fs[i].filename, fs[i].content, fs[i].file_hash)])

FileA == [filename |-> NameA, content |-> ContentA,
          file_hash |-> calculate_hash(ContentA)]
FileB == [filename |-> NameB, content |-> ContentB,
          file_hash |-> calculate_hash(ContentB)]

\* the batches whose streams are in PeerStreams as send_files writes them
SentBatches == {<<FileA>>, <<FileB>>, <<FileA, FileB>>}

\* C14 as claimed: whenever the TCP server is about to write a .sha256
\* sidecar, received_bytes equals the file_size of the header, also when
\* the peer closed the connection inside the hash or the content.
C14_SidecarOnlyWhenComplete ==
    spc = "sidecar" => received_bytes = header.file_size

\* C12: an exception in handle_client (undecodable file name, unwritable
\* destination, connection reset) ends that call only: the accept loop
\* takes the next step, a waiting connection is accepted, and a batch sent
\* on a connection accepted after a failed one is received in full.
C12_AcceptLoopSurvives ==
    /\ spc = "error" => ENABLED TcpHandled
    /\ (spc = "listen" /\ pending # <<>>) => ENABLED TcpAcceptNext
    /\ \A fs \in SentBatches :
          ( /\ spc = "returned"
            /\ \E i \in 1..Len(handled) : handled[i] = "error"
            /\ CurPeer = [stream |-> StreamOf(fs), end |-> "close"] )
          => /\ Len(written) >= Len(fs)
             /\ LastN(written, Len(fs)) = fs

\* the first connection failed on an undecodable name, the second one
\* delivered files "a" and "b"
C12_Witness ==
    /\ handled = <<"error">> /\ spc = "returned"
    /\ accepted[1].stream = FrameBadUtf \o FrameB
    /\ accepted[2] = [stream |-> FrameA \o FrameB, end |-> "close"]
    /\ LastN(written, 2) = <<FileA, FileB>>

\* C13 as claimed: while the server waits for bytes of a peer that neither
\* sends nor closes, a second client that has connected is accepted.
C13_SecondClientAccepted ==
    (BlockedOnPeer /\ pending # <<>>) => ENABLED TcpAcceptNext

\* C13 as amended: connections are handled one at a time, in the order
\* accept() returns them: a connection is accepted only after handle_client
\* has returned for the one before it, and while handle_client waits for a
\* peer that neither sends nor closes the server takes no step at all.
C13_StalledPeerBlocksServer ==
    /\ Len(accepted) = Len(handled) + (IF spc = "listen" THEN 0 ELSE 1)
    /\ BlockedOnPeer => ~ENABLED NextAccept

\* the first peer stopped inside the content of its file; a second
\* connection waits
C13_Witness ==
    /\ BlockedOnPeer /\ pending # <<>>
    /\ CurPeer = [stream |-> FrameACut, end |-> "stall"]
    /\ spc = "content" /\ rxData = <<1>>

\* the files stored for batch fs are its contents and its hashes
Stored(fs) ==
    \A i \in 1..Len(fs) :
        /\ fs[i].filename \in DOMAIN disk
        /\ disk[fs[i].filename] = fs[i].content
        /\ HashPath(fs[i].filename) \in DOMAIN disk
        /\ disk[HashPath(fs[i].filename)] = Utf8Encode(fs[i].file_hash)

\* a peer that sends batch fs as send_files does and closes
Sender(fs) == [stream |-> StreamOf(fs), end |-> "close"]

\* C11 as claimed, for a TCP connection: a file sent after a file whose
\* header declares a wrong name length is received with its name and
\* content.
C11_LaterFilesReceived ==
    ( /\ spc \in {"returned", "error"}
      /\ Len(accepted) >= 1
      /\ CurPeer = [stream |-> FrameLongName \o FrameB, end |-> "close"] )
    => /\ written # <<>>
       /\ written[Len(written)] = FileB

\* C11 as amended: a malformed header or a mismatched length damages the
\* connection (TCP) or the session (UDP) it belongs to and no other peer.
\* TCP: the batch of a connection accepted after any other connections is
\* received in full and its handling never fails.  UDP: an in-order
\* transfer of an address is stored whatever the other address sent, as
\* long as the other address did not write to the same file.
C11_OtherPeersUnharmed ==
    /\ \A fs \in SentBatches :
          (Len(accepted) >= 2 /\ CurPeer = Sender(fs)) =>
              /\ spc # "error"
              /\ spc = "returned" =>
                    /\ Len(written) >= Len(fs)
                    /\ LastN(written, Len(fs)) = fs
                    /\ Stored(fs)
    /\ \A a \in Addrs :
          (lastAddr = a /\ InOrderTransfer(a) /\ alone[a]) =>
              /\ TransferName(a) \in DOMAIN disk
              /\ disk[TransferName(a)] = TransferContent(a)

\* the first connection sent a header with a wrong name length and then
\* file "b"; the second connection delivered file "a"
C11_Witness ==
    /\ Len(accepted) = 2 /\ spc = "returned"
    /\ accepted[1] = [stream |-> FrameLongName \o FrameB, end |-> "close"]
    /\ accepted[2] = Sender(<<FileA>>)
    /\ Len(written) >= 2 /\ written[1] # FileB
    /\ Stored(<<FileA>>)

\* file "a" with one bit of its content flipped, and with a hash that is no
\* digest
FileFlipped == [filename |-> NameA, content |-> <<1, 2, 2>>,
                file_hash |-> calculate_hash(ContentA)]
FileHashBB  == [filename |-> NameA, content |-> ContentA,
                file_hash |-> HashBB]

HashBatches == SentBatches \cup {<<FileFlipped>>, <<FileHashBB>>}

\* the hash bytes of the metadata datagram of address a
TransferHashBytes(a) ==
    LET h == unpack_header(trace[a][1])
    IN  Slice(trace[a][2], h.name_len, h.name_len + h.hash_len)

\* C15: the receiver stores the hash it was sent.  TCP: after a batch, each
\* sidecar holds the hash bytes of the metadata and each file is reported
\* with that hash, whatever its content.  UDP: when a transfer completes
\* with a non-empty hash, the sidecar holds the hash bytes of the metadata
\* datagram.
C15_SidecarIsReceivedHash ==
    /\ \A fs \in HashBatches :
          (spc = "returned" /\ Len(accepted) >= 1 /\ CurPeer = Sender(fs)) =>
              /\ Len(written) >= Len(fs)
              /\ LastN(written, Len(fs)) = fs
              /\ Stored(fs)
    /\ \A a \in Addrs :
          (lastAddr = a /\ lastEvent = "complete"
           /\ TransferHashBytes(a) # <<>>) =>
              /\ HashPath(TransferName(a)) \in DOMAIN disk
              /\ disk[HashPath(TransferName(a))] = TransferHashBytes(a)

\* file "a" arrived with a flipped bit: its sidecar holds the hash sent,
\* which is not the hash of the content stored
C15_Witness ==
    /\ spc = "returned" /\ Len(accepted) >= 1
    /\ CurPeer = Sender(<<FileFlipped>>)
    /\ Stored(<<FileFlipped>>)
    /\ disk[HashPath(NameA)] # Utf8Encode(calculate_hash(disk[NameA]))

(***************************************************************************)
(* ProxyServer.                                                            *)
(***************************************************************************)
\* a and b have the same length and differ in one bit of one byte
OneBitFlipped(a, b) ==
    /\ Len(a) = Len(b)
    /\ Cardinality({i \in 1..Len(a) : a[i] # b[i]}) = 1
    /\ \A i \in 1..Len(a) :
          a[i] # b[i] =>
              Cardinality({k \in 0..7 : Bit(a[i], k) # Bit(b[i], k)}) = 1

\* C16: corrupt_data on non-empty data returns bytes and never raises; at
\* rate 1.0 the result has the length of the input and differs from it in
\* exactly one bit of one byte; at rate 0.0 it is the input; at a rate in
\* between it is the input or a single-bit flip of it.
C16_CorruptFlipsOneBit ==
    (corruptPc = "returned" /\ corruptData # <<>>) =>
        /\ ~corruptOut.raised
        /\ corruption_rate = RateOne =>
              OneBitFlipped(corruptData, corruptOut.data)
        /\ corruption_rate = 0 => corruptOut.data = corruptData
        /\ \/ corruptOut.data = corruptData
           \/ OneBitFlipped(corruptData, corruptOut.data)

\* b"Hello" at rate 1.0 came back as b"Hellk": bit 2 of the last byte
C16_Witness ==
    /\ corruptPc = "returned" /\ corruption_rate = RateOne
    /\ corruptData = Hello
    /\ corruptOut = [raised |-> FALSE, data |-> <<72, 101, 108, 108, 107>>]

\* C17 as claimed, for the UDP proxy: whenever handle_client_udp has a
\* socket for a datagram and the send itself does not fail, a datagram of
\* the same length is forwarded, a zero-length datagram included.
C17_SameLengthForwarded ==
    (lastRelay.dir = "forward"
     /\ lastRelay.result \notin {"no_socket", "send_error"}) =>
        /\ lastRelay.result = "sent"
        /\ Len(lastRelay.sent) = Len(lastRelay.data)

\* the reply tasks of client address a that still have to remove their map
\* entry
OwningTasks(a) ==
    {k \in 1..Len(socks) :
        socks[k].addr = a /\ socks[k].rpc \in {"recv", "finally", "locked"}}

\* C20 as claimed: every client address has at most one live reply task.
C20_OneLiveTaskPerClient ==
    \A a \in Addrs :
        Cardinality({k \in LiveTasks : socks[k].addr = a}) <= 1

\* the map and the reply tasks agree: an entry maps an address to an open
\* socket whose task serves that address and has not removed the entry, and
\* every such task has its entry
SessionsMatchTasks ==
    /\ \A a \in Addrs : Cardinality(OwningTasks(a)) <= 1
    /\ \A a \in DOMAIN udp_sessions :
          /\ udp_sessions[a] \in OwningTasks(a)
          /\ socks[udp_sessions[a]].open
    /\ \A a \in Addrs : \A k \in OwningTasks(a) :
          a \in DOMAIN udp_sessions /\ udp_sessions[a] = k

\* what one step does to the map and the tasks
SessionStep ==
    /\ (dpc = "session" /\ dAddr \notin DOMAIN udp_sessions
        /\ dpc' = "forward") =>
          /\ Len(socks') = Len(socks) + 1
          /\ SubSeq(socks', 1, Len(socks)) = socks
          /\ socks'[Len(socks')] = [addr |-> dAddr, open |-> TRUE,
                                    rpc |-> "recv", inbox |-> <<>>]
          /\ DOMAIN udp_sessions' = DOMAIN udp_sessions \cup {dAddr}
          /\ udp_sessions'[dAddr] = Len(socks')
          /\ dSock' = Len(socks')
    /\ (dpc = "session" /\ dpc' # "session"
        /\ dAddr \in DOMAIN udp_sessions) =>
          /\ dpc' = "forward"
          /\ dSock' = udp_sessions[dAddr]
          /\ socks' = socks /\ udp_sessions' = udp_sessions
    /\ (dpc = "forward" /\ dpc' # "forward") =>
          /\ lastRelay'.sock = dSock
          /\ socks' = socks /\ udp_sessions' = udp_sessions
    /\ \A k \in 1..Len(socks) :
          (socks[k].rpc = "locked" /\ socks'[k].rpc # "locked") =>
              /\ \A a \in DOMAIN udp_sessions :
                    IF udp_sessions[a] = k
                    THEN a \notin DOMAIN udp_sessions'
                    ELSE /\ a \in DOMAIN udp_sessions'
                         /\ udp_sessions'[a] = udp_sessions[a]
              /\ DOMAIN udp_sessions' \subseteq DOMAIN udp_sessions
    /\ Len(socks') # Len(socks) => dpc = "session"

\* C20 as amended: a datagram from an address without a map entry creates
\* one socket, maps the address to it and starts one reply task; a datagram
\* from a mapped address is sent on the mapped socket and starts no task;
\* each address has at most one entry and at most one reply task that has
\* not yet removed its entry; a reply task removes only the entry that maps
\* to its own socket.
C20_OneSessionPerClient == []SessionsMatchTasks /\ [][SessionStep]_vars

\* the first reply task of ClientAddr has removed its entry and is about to
\* close its socket; the next datagram of ClientAddr has started a second
\* task
C20_Witness ==
    /\ Len(socks) = 2
    /\ socks[1].addr = ClientAddr /\ socks[1].rpc = "close"
    /\ socks[2].addr = ClientAddr /\ socks[2].rpc = "recv"
    /\ udp_sessions = [a \in {ClientAddr} |-> 2]

\* one forward_tcp thread of bridge b has ended
DirectionEnded(b) ==
    /\ b <= Len(bridges)
    /\ \E d \in Dirs : bridges[b].fpc[d] = "done"

\* handle_client_tcp of bridge b has returned, both threads have ended and
\* both sockets are closed
TornDown(b) ==
    /\ b <= Len(bridges)
    /\ bridges[b].hpc = "returned"
    /\ \A d \in Dirs : bridges[b].fpc[d] = "done"
    /\ bridges[b].client_sock = "closed"
    /\ bridges[b].target_sock = "closed"

\* C18 as claimed: once one forwarding loop of a bridge has ended, the
\* other one ends too, both sockets are closed and handle_client_tcp
\* returns.
C18_BridgeTornDown ==
    \A b \in 1..MaxBridges : DirectionEnded(b) ~> TornDown(b)

\* C19: handle_client_tcp dials the target once.  After a successful dial
\* exactly two forwarding threads have been started; after a failed one
\* none is ever started, the finally clause is next and closes the client
\* socket; whatever happened to the bridges, a waiting client can be
\* accepted.
C19_DialOnce ==
    /\ pxPending # <<>> => ENABLED ProxyAccept
    /\ \A b \in 1..Len(bridges) :
          LET br == bridges[b]
          IN  /\ br.dials <= 1
              /\ br.hpc = "dial" <=> br.dials = 0
              /\ br.tasks \in {0, 2}
              /\ br.tasks = Cardinality({d \in Dirs : br.fpc[d] # "none"})
              /\ (br.dials = 1 /\ br.tasks = 0) =>
                    /\ br.hpc \in {"finally", "returned"}
                    /\ br.hpc = "finally" => ENABLED ProxyFinally(b)
                    /\ br.hpc = "returned" => br.client_sock = "closed"
                    /\ br.toTarget = <<>> /\ br.toClient = <<>>
              /\ (br.dials = 1 /\ br.tasks = 2) =>
                    br.hpc \in {"join", "finally", "returned"}

\* the dial of the first client failed and its socket is closed; the second
\* client was accepted and is bridged by two threads
C19_Witness ==
    /\ Len(bridges) = 2
    /\ bridges[1].dials = 1 /\ bridges[1].tasks = 0
    /\ bridges[1].hpc = "returned" /\ bridges[1].client_sock = "closed"
    /\ bridges[2].dials = 1 /\ bridges[2].tasks = 2
    /\ bridges[2].hpc = "join"

\* the reply task of socket k takes a datagram off its socket
ReceivedOn(k) ==
    /\ k \in 1..Len(socks) /\ socks[k].rpc = "recv"
    /\ Len(socks'[k].inbox) < Len(socks[k].inbox)

\* ... and sends it
RepliedOn(k) == ReceivedOn(k) /\ socks'[k].rpc = "recv"

\* the datagram of the last step went to the one client that socket k serves
RoutedToOwner(k) ==
    /\ lastRelay'.dir = "reply" /\ lastRelay'.sock = k
    /\ lastRelay'.result = "sent"
    /\ lastRelay'.addr \in DOMAIN udp_sessions
    /\ udp_sessions[lastRelay'.addr] = k
    /\ \A a \in DOMAIN udp_sessions \ {lastRelay'.addr} :
          udp_sessions[a] # k

\* C21 as claimed: every datagram the reply task of client address A
\* receives on A's outbound socket is sent to address A and to no other
\* client address, whatever the other clients' sessions are doing.
C21_EveryReplyRouted ==
    [][\A k \in 1..Len(socks) : ReceivedOn(k) => RoutedToOwner(k)]_vars

\* the part of C21 that holds: every datagram a reply task forwards goes,
\* once, to the client address whose datagrams the proxy sends to the
\* target on that socket.
C21_ReplyToOwnClient ==
    [][\A k \in 1..Len(socks) : RepliedOn(k) => RoutedToOwner(k)]_vars

\* two clients have sessions, the start_udp thread has just handled a
\* datagram of OtherAddr, and the reply on the socket of ClientAddr has
\* gone to ClientAddr
C21_Witness ==
    /\ DOMAIN udp_sessions = {ClientAddr, OtherAddr}
    /\ dAddr = OtherAddr
    /\ lastRelay.dir = "reply" /\ lastRelay.result = "sent"
    /\ lastRelay.addr = ClientAddr
    /\ lastRelay.sock = udp_sessions[ClientAddr]

\* the number of content chunks of the i-th file sent
ChunkCount(i) ==
    LET size == Len(SrcContent(valid_files[i]))
    IN  (size + chunk_size - 1) \div chunk_size

RECURSIVE ChunksUpTo(_)
ChunksUpTo(i) == IF i = 0 THEN 0 ELSE ChunksUpTo(i - 1) + ChunkCount(i)

\* the sleeps of `delay` made so far
DelaySleeps ==
    {i \in 1..Len(calls) : calls[i] = [op |-> "sleep", arg |-> delay]}

\* a step that hands a content chunk to the socket makes, right after the
\* send and before anything else, one sleep of delay when delay > 0 and no
\* sleep when delay = 0; no other step sleeps for delay
ThrottleStep ==
    IF cpc = "content" /\ cOff' > cOff
    THEN LET sent == [op |-> IF protocol = "tcp" THEN "sendall"
                             ELSE "sendto",
                      arg |-> cOff' - cOff]
         IN  calls' = calls \o
                 (IF delay > 0
                  THEN <<sent, [op |-> "sleep", arg |-> delay]>>
                  ELSE <<sent>>)
    ELSE /\ Len(calls') >= Len(calls)
         /\ SubSeq(calls', 1, Len(calls)) = calls
         /\ \A i \in Len(calls) + 1..Len(calls') :
               calls'[i] # [op |-> "sleep", arg |-> delay]

\* C25: with delay > 0 both clients sleep for delay exactly once per
\* content chunk, after the chunk was handed to the socket and before the
\* next chunk is read, so that a file of k chunks yields k such sleeps;
\* with delay = 0 there is no such sleep.
C25_SleepAfterEachChunk ==
    /\ [][ThrottleStep]_vars
    /\ [](cpc = "done" =>
            Cardinality(DelaySleeps) =
                IF delay > 0 THEN ChunksUpTo(Len(valid_files)) ELSE 0)

\* the UDP client has sent a batch with a file of two chunks or more with
\* delay > 0 and has slept once per chunk
C25_Witness ==
    /\ protocol = "udp" /\ cpc = "done" /\ delay > 0
    /\ \E i \in 1..Len(valid_files) : ChunkCount(i) >= 2
    /\ Cardinality(DelaySleeps) = ChunksUpTo(Len(valid_files))
    /\ Cardinality(DelaySleeps) >= 2

\* the text is a JSON object whose "type" member is t
IsMessage(data, t) ==
    /\ data.form = "object"
    /\ "type" \in DOMAIN data.members
    /\ data.members.type = t

\* discovered_peers grows only by the peer of the PONG just received
ScanStep ==
    discovered_peers' # discovered_peers =>
        /\ scanPc = "recvfrom" /\ scanIn' = scanIn + 1
        /\ IsMessage(scanLast'.data, "PONG")
        /\ Len(discovered_peers') = Len(discovered_peers) + 1
        /\ SubSeq(discovered_peers', 1, Len(discovered_peers)) =
              discovered_peers
        /\ LET peer == discovered_peers'[Len(discovered_peers')]
               m == scanLast'.data.members
           IN  /\ peer.ip = scanLast'.addr.ip
               /\ peer.port = IF "port" \in DOMAIN m THEN m.port
                              ELSE DEFAULT_SERVER_PORT
               /\ peer.hostname = IF "hostname" \in DOMAIN m
                                  THEN m.hostname ELSE None

\* C22: the list scan builds and returns holds no two peers with the same
\* ip and port; every peer in it comes from a received PONG, a datagram
\* that is not a PONG or not JSON adds none; no exception leaves scan, and
\* when recvfrom returned nothing before the timeout the list returned is
\* empty.
C22_ScanDeduplicated ==
    /\ [](\A i, j \in 1..Len(discovered_peers) :
            (discovered_peers[i].ip = discovered_peers[j].ip
             /\ discovered_peers[i].port = discovered_peers[j].port)
                => i = j)
    /\ [][ScanStep]_vars
    /\ [](scanPc # "raised")
    /\ []((scanPc = "returned" /\ scanIn = 0) => discovered_peers = <<>>)

\* scan has returned two peers of one ip after three datagrams, the last of
\* them a PONG that repeats the ip and port of the first peer under another
\* hostname
C22_Witness ==
    /\ scanPc = "returned" /\ scanIn = 3
    /\ Len(discovered_peers) = 2
    /\ discovered_peers[1].ip = discovered_peers[2].ip
    /\ IsMessage(scanLast.data, "PONG")
    /\ scanLast.addr.ip = discovered_peers[1].ip
    /\ scanLast.data.members = [type |-> "PONG", hostname |-> "Other",
                                port |-> discovered_peers[1].port]
    /\ discovered_peers[1].hostname = "TestPeer"

\* what the listener does with the datagram recvfrom returns: one PONG to
\* the source of a PING, nothing otherwise, and the loop goes on; no other
\* step sends
ListenStep ==
    IF lisPc = "recvfrom" /\ lisPc' # "recvfrom"
    THEN LET d == Head(lisInbox)
         IN  /\ lisPc' = "loop"
             /\ lisSent' =
                  IF IsMessage(d.data, "PING")
                  THEN Append(lisSent,
                          [data |-> PongOf(Hostname, lisPort),
                           addr |-> d.addr])
                  ELSE lisSent
    ELSE lisSent' = lisSent

\* C23: while the listener runs every PING it receives gets exactly one
\* PONG, sent to the PING's source address with this node's hostname and
\* the port given to listen(); a datagram that is not a PING or not JSON
\* gets no reply and does not stop the listener.
C23_OnePongPerPing == [][ListenStep]_vars /\ [](lisPc # "raised")

\* the listener announces port 9000; it has answered a PING and then
\* received bytes that are not UTF-8, and waits for the next datagram
C23_Witness ==
    /\ running /\ lisPc = "recvfrom" /\ lisPort = 9000
    /\ lisSent = <<[data |-> PongOf(Hostname, 9000), addr |-> ScannerAddr]>>
    /\ lisLast = [data |-> NotUtf8, addr |-> TestPeerAddr]

\* C24 as claimed: once stop() has set self.running to False the listener
\* thread, wherever it is, can go on by itself until it has left its loop:
\* it does not need another datagram to arrive.
C24_StopEndsListener ==
    (~running /\ lisPc \in {"loop", "recvfrom"}) => ENABLED ListenThread

\* the step is one call process_datagram(lastData', lastAddr')
FeedStep == fed' = fed + 1

\* ... for an address whose session is in the given state
FeedStepIn(state) ==
    /\ FeedStep
    /\ lastAddr' \in DOMAIN sessions
    /\ sessions[lastAddr'].state = state

\* C26: a datagram of exactly 16 bytes from an address without session
\* creates a session for that address in WAITING_METADATA that holds the
\* unpacked header and received_bytes = 0; a datagram of any other length
\* from such an address leaves the session map and the files as they were.
C26_NoSessionDispatch ==
    [][(FeedStep /\ lastAddr' \notin DOMAIN sessions) =>
          IF Len(lastData') = HEADER_SIZE
          THEN /\ DOMAIN sessions' = DOMAIN sessions \cup {lastAddr'}
               /\ sessions'[lastAddr'].state = "WAITING_METADATA"
               /\ sessions'[lastAddr'].header = unpack_header(lastData')
               /\ sessions'[lastAddr'].received_bytes = 0
          ELSE sessions' = sessions /\ disk' = disk]_vars

\* sixteen zero bytes from OtherAddr have created a session that expects
\* an empty name, while ClientAddr's session receives content
C26_Witness ==
    /\ lastAddr = OtherAddr /\ lastData = HeaderNull
    /\ OtherAddr \in DOMAIN sessions
    /\ sessions[OtherAddr].state = "WAITING_METADATA"
    /\ sessions[OtherAddr].header.name_len = 0
    /\ ClientAddr \in DOMAIN sessions
    /\ sessions[ClientAddr].state = "RECEIVING_CONTENT"

\* the parts of the metadata datagram of the step
MetaName == Slice(lastData', 0, sessions[lastAddr'].header.name_len)
MetaHash == Slice(lastData', sessions[lastAddr'].header.name_len,
                  Len(lastData'))
MetaFits == Len(lastData') = sessions[lastAddr'].header.name_len
                             + sessions[lastAddr'].header.hash_len

\* the step has stored the name and the hash, emptied the destination file
\* and moved the session to RECEIVING_CONTENT
MetadataTaken ==
    /\ lastAddr' \in DOMAIN sessions'
    /\ sessions'[lastAddr'].state = "RECEIVING_CONTENT"
    /\ Utf8Encode(sessions'[lastAddr'].filename) = MetaName
    /\ Utf8Encode(sessions'[lastAddr'].file_hash) = MetaHash
    /\ disk' = [p \in DOMAIN disk \cup {sessions'[lastAddr'].filename} |->
                  IF p = sessions'[lastAddr'].filename THEN <<>>
                  ELSE disk[p]]

\* the step has destroyed the session and touched no file
SessionDropped == lastAddr' \notin DOMAIN sessions' /\ disk' = disk

\* C27 as claimed: in WAITING_METADATA a datagram of length name_len +
\* hash_len is split at name_len into file name and hash, the destination
\* file is created or truncated and the session moves to
\* RECEIVING_CONTENT; a datagram of any other length destroys the session
\* and touches no file.
C27_MetadataAccepted ==
    [][FeedStepIn("WAITING_METADATA") =>
          IF MetaFits THEN MetadataTaken ELSE SessionDropped]_vars

\* C27 as amended: a datagram of length name_len + hash_len is split at
\* name_len; when both parts are UTF-8 and the name can be opened as a file
\* in save_dir, the file is created or truncated and the session moves to
\* RECEIVING_CONTENT; otherwise, and for a datagram of any other length,
\* the session is destroyed and no file is created or truncated.
C27_MetadataDispatch ==
    [][FeedStepIn("WAITING_METADATA") =>
          IF /\ MetaFits
             /\ Utf8Valid(MetaName) /\ Utf8Valid(MetaHash)
             /\ ~OpenFails(Utf8Decode(MetaName))
          THEN MetadataTaken
          ELSE SessionDropped]_vars

\* the metadata of OtherAddr has just emptied the file that the session of
\* ClientAddr has written one byte to
C27_Witness ==
    /\ lastAddr = OtherAddr /\ lastEvent = "metadata"
    /\ ClientAddr \in DOMAIN sessions /\ OtherAddr \in DOMAIN sessions
    /\ sessions[ClientAddr].state = "RECEIVING_CONTENT"
    /\ sessions[ClientAddr].received_bytes = 1
    /\ sessions[OtherAddr].state = "RECEIVING_CONTENT"
    /\ sessions[OtherAddr].file_path = sessions[ClientAddr].file_path
    /\ disk[sessions[OtherAddr].file_path] = <<>>

\* the file of the session of the step with the datagram appended
ContentAppended ==
    AppendFile(disk, sessions[lastAddr'].file_path, lastData')

ContentTotal == sessions[lastAddr'].received_bytes + Len(lastData')

\* C28 as claimed: in RECEIVING_CONTENT every datagram, whatever its
\* length, is appended in full and received_bytes grows by its length; the
\* sidecar is written and the session destroyed by the first datagram that
\* brings received_bytes to file_size or above, and not before.
C28_ContentAppended ==
    [][FeedStepIn("RECEIVING_CONTENT") =>
          IF ContentTotal >= sessions[lastAddr'].header.file_size
          THEN /\ lastAddr' \notin DOMAIN sessions'
               /\ disk' = WriteFile(ContentAppended,
                               HashPath(sessions[lastAddr'].file_path),
                               Utf8Encode(sessions[lastAddr'].file_hash))
          ELSE /\ lastAddr' \in DOMAIN sessions'
               /\ sessions'[lastAddr'].state = "RECEIVING_CONTENT"
               /\ sessions'[lastAddr'].received_bytes = ContentTotal
               /\ disk' = ContentAppended]_vars

\* the part of C28 that holds: the same, with the sidecar written only when
\* the hash of the metadata is not empty.
C28_ContentDispatch ==
    [][FeedStepIn("RECEIVING_CONTENT") =>
          IF ContentTotal >= sessions[lastAddr'].header.file_size
          THEN /\ lastAddr' \notin DOMAIN sessions'
               /\ disk' =
                    IF sessions[lastAddr'].file_hash # <<>>
                    THEN WriteFile(ContentAppended,
                               HashPath(sessions[lastAddr'].file_path),
                               Utf8Encode(sessions[lastAddr'].file_hash))
                    ELSE ContentAppended
          ELSE /\ lastAddr' \in DOMAIN sessions'
               /\ sessions'[lastAddr'].state = "RECEIVING_CONTENT"
               /\ sessions'[lastAddr'].received_bytes = ContentTotal
               /\ disk' = ContentAppended]_vars

\* what one step may do to the session of address a
FsmStep(a) ==
    /\ (a \notin DOMAIN sessions /\ a \in DOMAIN sessions') =>
          sessions'[a].state = "WAITING_METADATA"
    /\ (a \in DOMAIN sessions /\ a \in DOMAIN sessions') =>
          /\ sessions'[a].header = sessions[a].header
          /\ sessions'[a].received_bytes >= sessions[a].received_bytes
          /\ <<sessions[a].state, sessions'[a].state>> \in
                {<<"WAITING_METADATA", "RECEIVING_CONTENT">>,
                 <<"RECEIVING_CONTENT", "RECEIVING_CONTENT">>}
             \/ SessionUntouched(a)
    /\ ~(FeedStep /\ lastAddr' = a) => SessionUntouched(a)

\* C29: the session of an address goes from absent to WAITING_METADATA,
\* from WAITING_METADATA to RECEIVING_CONTENT, and from either to absent,
\* and in no other way; its header never changes, received_bytes never
\* decreases, and it changes or disappears only in a process_datagram call
\* for its own address, so that a session whose last content datagram is
\* lost stays in RECEIVING_CONTENT until that address sends again.
C29_SessionFsm ==
    /\ [][\A a \in Addrs : FsmStep(a)]_vars
    /\ [](\A a \in DOMAIN sessions :
            sessions[a].state \in {"WAITING_METADATA", "RECEIVING_CONTENT"})

\* the session of ClientAddr lacks one byte and has stayed as it was while
\* OtherAddr sent a header and its metadata
C29_Witness ==
    /\ fed = 5 /\ lastAddr = OtherAddr /\ lastEvent = "metadata"
    /\ ClientAddr \in DOMAIN sessions
    /\ sessions[ClientAddr].state = "RECEIVING_CONTENT"
    /\ sessions[ClientAddr].received_bytes = 1
    /\ sessions[ClientAddr].header.file_size = 2
    /\ trace[ClientAddr] = <<HeaderTwo, MetaAB, <<1>>>>

\* the frame being received declares file_size = 0 and its metadata was read
ZeroByteFrame ==
    protocol = "tcp" /\ spc \in {"content", "sidecar"} /\ header.file_size = 0

\* after the hash of a zero-byte frame the loop is left at once: the empty
\* destination file exists, nothing was read and nothing is being read
ZeroByteSkipsLoop ==
    (protocol = "tcp" /\ spc = "hash" /\ spc' # "hash"
        /\ header.file_size = 0 /\ spc' # "error") =>
        /\ spc' = "sidecar"
        /\ rpos' = rpos
        /\ filename \in DOMAIN disk' /\ disk'[filename] = <<>>

\* the sidecar of a zero-byte frame is written beside the empty file, and
\* the next thing read is a 16-byte header from where the metadata ended
ZeroByteStored ==
    (ZeroByteFrame /\ spc = "sidecar" /\ spc' # "sidecar") =>
        /\ disk'[filename] = <<>>
        /\ HashPath(filename) \in DOMAIN disk'
        /\ disk'[HashPath(filename)] = Utf8Encode(file_hash)
        /\ written' = Append(written, [filename  |-> filename,
                                       content   |-> <<>>,
                                       file_hash |-> file_hash])
        /\ spc' = "header" /\ rxN' = HEADER_SIZE /\ rxData' = <<>>
        /\ ~rxEof' /\ rpos' = rpos

\* C30: for a frame whose header declares file_size = 0 the content loop of
\* handle_client makes no recv (the loop is entered only with bytes still
\* to come, and then asks for at least one); the empty destination file and
\* its sidecar are written and the next 16 bytes of the stream are read as
\* the next header, so the files that follow on the connection are
\* received too.
C30_ZeroByteFile ==
    /\ [](protocol = "tcp" =>
            /\ ~(ZeroByteFrame /\ spc = "content")
            /\ spc = "content" =>
                    rxN >= 1 /\ received_bytes < header.file_size
            /\ TcpTransferOver =>
                    /\ Len(written) = Len(valid_files)
                    /\ \A i \in 1..Len(written) :
                            written[i].content = SrcContent(valid_files[i]))
    /\ [][ZeroByteSkipsLoop /\ ZeroByteStored]_vars

\* a zero-byte file and then a two-byte file were received on one
\* connection, both stored
C30_Witness ==
    /\ TcpTransferOver
    /\ files = <<PathA2, PathE>>
    /\ Len(written) = 2
    /\ written[1].content = <<>> /\ written[2].content = <<4, 5>>
    /\ disk[NameE] = <<4, 5>>
    /\ HashPath(NameA) \in DOMAIN disk

\* the number of bytes of the frame of the file p on the wire
FrameLen(p) ==
    HEADER_SIZE + Utf8Len(p.name)
        + Len(Utf8Encode(calculate_hash(SrcContent(p)))) + Len(SrcContent(p))

\* the stream offset at which the k-th frame of the batch begins
RECURSIVE FrameStart(_)
FrameStart(k) ==
    IF k <= 1 THEN 0 ELSE FrameStart(k - 1) + FrameLen(valid_files[k - 1])

\* the stream offset of the first content byte of the frame being received
ContentStart ==
    FrameStart(Len(written) + 1) + HEADER_SIZE + header.name_len
        + header.hash_len

\* C31: every read of the content loop requests min(CHUNK_SIZE, file_size -
\* received_bytes) bytes; in every state of the loop received_bytes <=
\* header.file_size, the chunks read so far are all in the destination file
\* before the next read begins, and the read position never passes the last
\* content byte of the frame, so no byte of the next frame's header is
\* taken as content.
C31_ContentReadBounded ==
    (protocol = "tcp" /\ spc \in {"content", "sidecar"}) =>
        /\ received_bytes <= header.file_size
        /\ filename \in DOMAIN disk
        /\ disk[filename] =
              SubSeq(tcpStream, ContentStart + 1, ContentStart + received_bytes)
        /\ spc = "content" =>
              /\ rxN = Min(CHUNK_SIZE, header.file_size - received_bytes)
              /\ rpos = ContentStart + received_bytes + Len(rxData)
              /\ rpos <= ContentStart + header.file_size

\* the last byte of a three-byte file is being read with a request of one
\* byte while the header of the next frame is already waiting in the stream
C31_Witness ==
    /\ protocol = "tcp" /\ spc = "content"
    /\ files = <<PathA1, PathE>>
    /\ Len(written) = 0
    /\ received_bytes = 2 /\ rxN = 1 /\ rxData = <<>>
    /\ Len(tcpStream) >= ContentStart + header.file_size + HEADER_SIZE

\* the threads that are at an access to udp_sessions: the start_udp thread
\* at the lookup and insert, a reply task at the compare and delete
MapAccessors ==
    (IF dpc = "session" THEN {MainThread} ELSE {})
        \cup {k \in 1..Len(socks) : socks[k].rpc = "locked"}

\* a step that changes udp_sessions is taken by the thread that holds the
\* lock, and that thread releases it
MapChangeLocked ==
    udp_sessions' # udp_sessions =>
        /\ udp_sessions_lock \in MapAccessors
        /\ udp_sessions_lock' = LockFree

\* C32: every access to the proxy's UDP session map, the lookup and insert
\* of handle_client_udp and the compare and delete of forward_udp_reply, is
\* made by the thread that holds udp_sessions_lock, so the inbound dispatch
\* and a reply task are never inside a map access at the same time.
C32_MapAccessLocked ==
    /\ [](/\ \A t \in MapAccessors : udp_sessions_lock = t
          /\ Cardinality(MapAccessors) <= 1)
    /\ [][MapChangeLocked]_vars

\* a reply task is inside its compare and delete while the start_udp thread
\* waits for the lock with a datagram of the same client
C32_Witness ==
    /\ dpc = "lock"
    /\ \E k \in 1..Len(socks) :
          /\ socks[k].rpc = "locked" /\ udp_sessions_lock = k
          /\ socks[k].addr = dAddr
          /\ dAddr \in DOMAIN udp_sessions /\ udp_sessions[dAddr] = k

\* handle_client_udp has called target_socket.send on socket k
SentOn(k) ==
    /\ lastRelay.dir = "forward" /\ lastRelay.sock = k
    /\ lastRelay.result \in {"sent", "send_error"}

\* C33: removal of a UDP proxy session is synchronized with the inbound
\* path: under every interleaving of handle_client_udp (lookup under the
\* lock, then send) with the cleanup of forward_udp_reply, no client
\* datagram is sent on an outbound socket that the reply task has already
\* removed from the map and closed.
C33_NoSendOnClosedSocket ==
    \A k \in 1..Len(socks) :
        SentOn(k) => lastRelay.result = "sent"

\* the UDP client has returned and the server has processed every datagram
UdpTransferOver ==
    protocol = "udp" /\ cpc = "done" /\ udpPos = Len(udpSent)

\* C34: on a lossless, in-order, non-duplicating channel, once the server
\* has processed the last datagram of a batch that UDPClient.send_files
\* sent from one socket, every file of the batch, files of size 0 and files
\* whose size is a multiple of the chunk size included, is in save_dir with
\* exactly its content and its sidecar, and no session of the sender
\* remains.
C34_UdpEveryFileStored ==
    UdpTransferOver =>
        /\ \A i \in 1..Len(files) :
              Exists(files[i]) => FileHolds(i) /\ SidecarHolds(i)
        /\ ClientAddr \notin DOMAIN sessions

\* the same for the batches without an empty file, and for the files whose
\* destination no later file of the batch overwrites
C34_NonEmptyFilesStored ==
    (UdpTransferOver
        /\ \A i \in 1..Len(files) : Exists(files[i]) => SentBytes(i) # <<>>) =>
        /\ \A i \in 1..Len(files) :
              Exists(files[i]) =>
                  /\ FileKept(i) => FileHolds(i)
                  /\ SidecarKept(i) => SidecarHolds(i)
        /\ ClientAddr \notin DOMAIN sessions

\* the files handle_client has finished: each with its sidecar
FinishedPaths ==
    UNION {{written[i].filename, HashPath(written[i].filename)} :
              i \in 1..Len(written)}

\* a pass of the content loop that stays in the loop has read at least one
\* byte, and a pass of the per-connection loop that stays in it at least a
\* header
LoopStep ==
    /\ (spc = "content" /\ spc' = "content"
            /\ received_bytes' # received_bytes) =>
            /\ received_bytes' > received_bytes
            /\ rpos >= received_bytes'
    /\ (spc = "sidecar" /\ spc' = "header") =>
            /\ Len(written') = Len(written) + 1
            /\ rpos' >= HEADER_SIZE * Len(written')
    /\ rpos' >= rpos

\* C35: handle_client terminates for every finite stream followed by EOF,
\* well-formed or not: every pass of the per-connection loop and of the
\* content loop that does not end the loop consumes at least one byte, the
\* handler returns or ends in its except clause, and a stream cut inside a
\* header ends the loop without a file for that header.
C35_HandleClientTerminates ==
    /\ <>(handled # <<>>)
    /\ [][LoopStep]_vars
    /\ [](spc \in {"header", "returned"} => DOMAIN disk = FinishedPaths)

\* handle_client has returned on a stream closed inside the header of its
\* second frame: the first file is stored and nothing else
C35_Witness ==
    /\ handled = <<"returned">>
    /\ accepted[1].stream = FrameB \o Cut(FrameA, 8)
    /\ rpos = Len(accepted[1].stream)
    /\ DOMAIN disk = {NameB, HashPath(NameB)}

\* C36: the UDP server never writes more content bytes to a destination
\* file than header.file_size of the session declares, whatever the
\* lengths of the content datagrams: the bytes appended for a session,
\* the datagram of the step included, are at most its file_size, and so is
\* the length of its file.
C36_NeverExceedsFileSize ==
    [][FeedStepIn("RECEIVING_CONTENT") =>
          /\ ContentTotal <= sessions[lastAddr'].header.file_size
          /\ Len(disk'[sessions[lastAddr'].file_path])
                <= sessions[lastAddr'].header.file_size]_vars

\* a datagram of another address leaves the file of every session that is
\* in RECEIVING_CONTENT as it was
OtherFilesKept ==
    \A a \in DOMAIN sessions :
        (a # lastAddr' /\ sessions[a].state = "RECEIVING_CONTENT") =>
            SameFile(sessions, a, disk, disk')

\* the datagram that completes a session leaves in its file the bytes of
\* the content datagrams of its address, in arrival order
CompletedFileIsOwn ==
    (FeedStepIn("RECEIVING_CONTENT") /\ lastEvent' = "complete") =>
        disk'[sessions[lastAddr'].file_path] =
            Concat(SubSeq(trace'[lastAddr'], 3, Len(trace'[lastAddr'])))

\* C37: while a session of address A is in RECEIVING_CONTENT, datagrams of
\* another address B never truncate or append to A's destination file, also
\* when B's metadata names the same file; at A's completion its file holds
\* exactly the bytes of A's content datagrams in arrival order.
C37_FileIsolation ==
    [][FeedStep => OtherFilesKept /\ CompletedFileIsOwn]_vars

\* a is the beginning of b
IsPrefix(a, b) == Len(a) <= Len(b) /\ a = SubSeq(b, 1, Len(a))

\* sent is what corrupt_data may return for data at the proxy's rate: data
\* itself at rate 0, a one-bit flip of it at rate 1, either in between
CorruptedAtRate(data, sent) ==
    /\ sent = data \/ OneBitFlipped(data, sent)
    /\ corruption_rate = 0 => sent = data
    /\ corruption_rate = RateOne => OneBitFlipped(data, sent)

\* what a sendall of the client-to-target thread of bridge b appends
SentToTarget(b) ==
    SubSeq(bridges'[b].toTarget, Len(bridges[b].toTarget) + 1,
           Len(bridges'[b].toTarget))

\* a write to the target is the chunk just read, passed through corrupt_data
TcpForwardCorrupted ==
    \A b \in 1..Len(bridges) :
        bridges'[b].toTarget # bridges[b].toTarget =>
            CorruptedAtRate(bridges[b].buf["c2t"], SentToTarget(b))

\* C38: the TCP proxy corrupts only the client-to-target direction: at
\* every corruption_rate the bytes written to the client are bit for bit
\* the bytes read from the target, while the writes to the target go
\* through corrupt_data; the UDP proxy applies corrupt_data to the
\* datagrams of both directions.
C38_CorruptOneWayTcpBothWaysUdp ==
    /\ [](\A b \in 1..Len(bridges) :
             IsPrefix(bridges[b].toClient, bridges[b].read["t2c"]))
    /\ [][TcpForwardCorrupted]_vars
    /\ []((lastRelay.dir \in {"forward", "reply"}
             /\ lastRelay.result = "sent") =>
             CorruptedAtRate(lastRelay.data, lastRelay.sent))

\* at rate 1 the TCP proxy has relayed two bytes each way: those written to
\* the client are the target's, those written to the target are not the
\* client's
C38_Witness ==
    /\ corruption_rate = RateOne
    /\ Len(bridges) = 1
    /\ bridges[1].read["t2c"] = <<9, 8>> /\ bridges[1].toClient = <<9, 8>>
    /\ bridges[1].read["c2t"] = <<5, 6>> /\ Len(bridges[1].toTarget) = 2
    /\ bridges[1].toTarget # <<5, 6>>

\* all that forward_tcp of direction d has written to its destination
Written(br, d) == IF d = "c2t" THEN br.toTarget ELSE br.toClient

\* what was written is the beginning of what was read; the chunk in hand is
\* the rest, and at every recv nothing read is still unwritten
RelayInOrder(br, d) ==
    /\ IsPrefix(Written(br, d), br.read[d])
    /\ br.fpc[d] = "send" => br.read[d] = Written(br, d) \o br.buf[d]
    /\ br.fpc[d] \in {"loop", "recv"} => br.read[d] = Written(br, d)

\* recv returns b"" on a socket the proxy has not closed: the source closed
\* cleanly, and all it sent has been written to the destination
CleanCloseStep(b, d) ==
    (/\ bridges[b].fpc[d] = "recv" /\ bridges'[b].fpc[d] = "finally"
     /\ SourceSock(bridges[b], d) # "closed") =>
        /\ SourceIn(bridges[b], d) = <<>>
        /\ Written(bridges'[b], d) = bridges'[b].read[d]

\* C39: with corruption_rate = 0, in each direction the bytes the proxy has
\* written to the destination are at every moment a prefix of the bytes it
\* has read from the source, each chunk is written whole before the next
\* read, and when the source closes cleanly the two streams are equal.
C39_TransparentRelay ==
    /\ [](corruption_rate = 0 =>
             \A b \in 1..Len(bridges) : \A d \in Dirs :
                 RelayInOrder(bridges[b], d))
    /\ [][corruption_rate = 0 =>
             \A b \in 1..Len(bridges) : \A d \in Dirs :
                 CleanCloseStep(b, d)]_vars

\* at rate 0 a client that sent two bytes and closed has been relayed in
\* one-byte chunks: the target has received both bytes and the thread has
\* seen the end of the stream
C39_Witness ==
    /\ corruption_rate = 0
    /\ Len(bridges) = 1
    /\ bridges[1].fpc["c2t"] = "finally"
    /\ bridges[1].client_sock = "open"
    /\ bridges[1].cIn = <<>>
    /\ bridges[1].toTarget = <<5, 6>>

====
